---- MODULE Spec2Model ----
(***************************************************************************)
(* A model of rust-6502-emu: the MOS 6502 emulator of src/src/cpu.rs, its  *)
(* memory (src/src/mem.rs) and its instruction table                       *)
(* (src/src/instruction.rs).                                               *)
(*                                                                         *)
(* The CPU and the memory are the records cpu and mem.  One action models  *)
(* Cpu::reset, one the fixture that seeds memory and registers before a    *)
(* run (the tests of cpu.rs, run() of lib.rs), one a call of Cpu::exec and *)
(* one an iteration of exec's loop, which decodes and executes a single    *)
(* instruction.  A Rust panic ends the run: it is recorded in panicked.    *)
(*                                                                         *)
(* Integer arithmetic written with + and - in the source panics on         *)
(* overflow in a build with overflow checks (cargo test, cargo build) and  *)
(* wraps in a build without (cargo build --release).  The build is chosen  *)
(* once, in Init, by overflow_checks.                                      *)
(*                                                                         *)
(* The 64 KiB array of Memory is kept as the function data from the        *)
(* addresses that hold a non-zero byte to that byte; every other address   *)
(* reads as 0.                                                             *)
(***************************************************************************)
EXTENDS Integers, Sequences, FiniteSets, TLC

(***************************************************************************)
(* Bounds of the model.                                                    *)
(***************************************************************************)
\* The largest cycle budget passed to exec.
MaxBudget == 3
\* The number of instructions executed after a fixture, over all exec calls.
MaxInstr == 4
\* The number of writes made to the memory directly, one after another.
MaxWrites == 3

(***************************************************************************)
(* Constants of cpu.rs and mem.rs.                                         *)
(***************************************************************************)
VECTOR_NMI == 65530
VECTOR_RES == 65532
VECTOR_IRQ == 65534
STACK_BASE == 256
ZERO_PAGE_BASE == 0
INITIAL_STACK_POINTER == 253
CYCLES_AFTER_RESET == 7
MEMORY_SIZE == 65536
ADDR_RESET_VECTOR == 57344

\* StatusFlags (bitflags!): one bit per flag.
C == 1
Z == 2
I == 4
D == 8
B == 16
V == 64
N == 128
RESERVED == 32

VARIABLES cpu, mem, overflow_checks, panicked, cycles_to_execute, call, prev, fixture

vars == <<cpu, mem, overflow_checks, panicked, cycles_to_execute, call, prev, fixture>>

(***************************************************************************)
(* Machine integers.                                                       *)
(***************************************************************************)
U8 == 0..255
U16 == 0..(MEMORY_SIZE - 1)

\* The value a computation yields when a `+` or `-` of the source overflows
\* in a build with overflow checks (the thread panics).
Overflow == 0 - 1
\* The value fetch_addr yields for an addressing mode it does not handle
\* (panic!("Unhandled address mode")).
Unhandled == 0 - 2

\* u16 `+`: panics on overflow with overflow checks, wraps without.
add_u16(a, b) ==
    IF a + b < MEMORY_SIZE THEN a + b
    ELSE IF overflow_checks THEN Overflow ELSE (a + b) % MEMORY_SIZE

\* u16 `-`: panics on overflow with overflow checks, wraps without.
sub_u16(a, b) ==
    IF a >= b THEN a - b
    ELSE IF overflow_checks THEN Overflow ELSE (a - b) % MEMORY_SIZE

wrapping_add_u16(a, b) == (a + b) % MEMORY_SIZE
\* An 8-bit addition that stops at 0xFF.
wrapping_add_u8_saturating(a, b) == IF a + b > 255 THEN 255 ELSE a + b

wrapping_add_u8(a, b) == (a + b) % 256
\* A subtraction that stops at zero.
wrapping_sub_u8_saturating(a, b) == IF a >= b THEN a - b ELSE 0
wrapping_sub_u8(a, b) == (a - b) % 256

\* `v as i8` of a byte, and `r as u16` of an i8 (sign extension).
as_i8(v) == IF v >= 128 THEN v - 256 ELSE v
i8_as_u16(r) == r % MEMORY_SIZE

\* A budget that is charged one unit for an instruction, whatever it cost.
saturating_sub_one(a, b) == IF a > 1 THEN a - 1 ELSE 0

\* A budget that is charged half the cycles of an instruction.
saturating_sub_half(a, b) == IF a > b \div 2 THEN a - (b \div 2) ELSE 0

saturating_sub(a, b) == IF a > b THEN a - b ELSE 0
\* u64::MAX, 2^64 - 1.  The integers of the model checker are 32 bits wide:
\* a u64 v is kept as v itself below 2^30 and as 2^31 - 1 - (u64::MAX - v)
\* in the top 2^30 values, which keeps order and differences; the values
\* in between are reached by no run of the model.
U64_MAX == 2147483647

\* An addition on u64 that wraps.
saturating_add_wrapping(a, b) == IF a > U64_MAX - b THEN b - (U64_MAX - a) - 1 ELSE a + b

\* u64::saturating_add.
saturating_add(a, b) == IF a > U64_MAX - b THEN U64_MAX ELSE a + b

RECURSIVE BitAnd(_, _)
\* `a & b` on unsigned integers.
BitAnd(a, b) ==
    IF a = 0 \/ b = 0 THEN 0
    ELSE (IF a % 2 = 1 /\ b % 2 = 1 THEN 1 ELSE 0) + 2 * BitAnd(a \div 2, b \div 2)

RECURSIVE BitOr(_, _)
\* `a | b` on unsigned integers.
BitOr(a, b) ==
    IF a = 0 THEN b
    ELSE IF b = 0 THEN a
    ELSE (IF a % 2 = 1 \/ b % 2 = 1 THEN 1 ELSE 0) + 2 * BitOr(a \div 2, b \div 2)

RECURSIVE BitXor(_, _)
\* `a ^ b` on unsigned integers.
BitXor(a, b) ==
    IF a = 0 THEN b
    ELSE IF b = 0 THEN a
    ELSE ((a + b) % 2) + 2 * BitXor(a \div 2, b \div 2)

\* `!a` on a u8.
BitNot(a) == 255 - a

\* `a << 1` and `a >> 1` on a u8.
shl1(a) == (2 * a) % 256
\* A right shift that keeps bit 7, as on a signed byte.
shr1_arithmetic(a) == (a \div 2) + (128 * (a \div 128))

shr1(a) == a \div 2

(***************************************************************************)
(* StatusFlags: the operations bitflags! generates.                        *)
(***************************************************************************)
ALL == BitOr(C, BitOr(Z, BitOr(I, BitOr(D, BitOr(B, BitOr(V, N))))))
\* Every bit that belongs to some flag of the declaration.
KnownBits == BitOr(ALL, RESERVED)

contains(s, f) == BitAnd(s, f) = f
insert(s, f) == BitOr(s, f)
remove(s, f) == BitAnd(s, BitNot(f))
set(s, f, value) == IF value THEN insert(s, f) ELSE remove(s, f)
union(s, f) == BitOr(s, f)
from_bits_truncate(bits) == BitAnd(bits, KnownBits)
\* impl Default for StatusFlags
StatusFlags_default == RESERVED
StatusFlags_empty == 0

(***************************************************************************)
(* Memory (mem.rs).  Option<u16> is <<>> for None and <<a>> for Some(a).   *)
(***************************************************************************)
None == <<>>
Some(a) == <<a>>

\* data[addr] = value on the array kept as its non-zero bytes.
Store(data, addr, value) ==
    IF value = 0
    THEN [a \in DOMAIN data \ {addr} |-> data[a]]
    ELSE [a \in DOMAIN data \cup {addr} |-> IF a = addr THEN value ELSE data[a]]

ZeroData == [a \in {} |-> 0]

Memory_create == [data |-> ZeroData, current_write_addr |-> None]

read_u8(m, addr) == IF addr \in DOMAIN m.data THEN m.data[addr] ELSE 0

read_i8(m, addr) == as_i8(read_u8(m, addr))

\* LB at addr, HB at addr + 1; the `+` overflows at addr = 0xFFFF.
read_u16(m, addr) ==
    LET hb == add_u16(addr, 1)
    IN IF hb = Overflow THEN Overflow
       ELSE BitOr(read_u8(m, addr), read_u8(m, hb) * 256)

\* A write without an address and without a previous write panics.
write_panics(m, addr) == addr = None /\ m.current_write_addr = None

\* The address a write goes to: the one given, else the cursor.
write_addr(m, addr) == IF addr # None THEN addr[1] ELSE m.current_write_addr[1]

write_u8(m, addr, value) ==
    LET wa == write_addr(m, addr)
    IN [data |-> Store(m.data, wa, value),
        current_write_addr |-> Some(wrapping_add_u16(wa, 1))]

write_i8(m, addr, value) == write_u8(m, addr, value % 256)

write_u16(m, addr, value) ==
    LET wa == write_addr(m, addr)
        lb == BitAnd(value, 255)
        hb == BitAnd(value, 65280) \div 256
    IN [data |-> Store(Store(m.data, wa, lb), wrapping_add_u16(wa, 1), hb),
        current_write_addr |-> Some(wrapping_add_u16(wa, 2))]

\* A reset that writes the vector and clears the cursor but keeps the data.
Memory_reset_keeps_data(m) ==
    [write_u16(m, Some(VECTOR_RES), ADDR_RESET_VECTOR) EXCEPT !.current_write_addr = None]

\* A reset that leaves the cursor behind the vector it has written.
Memory_reset_keeps_cursor(m) ==
    LET zeroed == [data |-> ZeroData, current_write_addr |-> m.current_write_addr]
    IN write_u16(zeroed, Some(VECTOR_RES), ADDR_RESET_VECTOR)

Memory_reset(m) ==
    LET zeroed == [data |-> ZeroData, current_write_addr |-> m.current_write_addr]
        vec == write_u16(zeroed, Some(VECTOR_RES), ADDR_RESET_VECTOR)
    IN [vec EXCEPT !.current_write_addr = None]

(***************************************************************************)
(* The instruction table (instruction.rs).                                 *)
(***************************************************************************)
ADC_IMM == 105
ADC_ZPG == 101
ADC_ZPX == 117
ADC_ABS == 109
ADC_ABX == 125
ADC_ABY == 121
ADC_IDX == 97
ADC_IDY == 113
SBC_IMM == 233
SBC_ZPG == 229
SBC_ZPX == 245
SBC_ABS == 237
SBC_ABX == 253
SBC_ABY == 249
SBC_IDX == 225
SBC_IDY == 241
CMP_IMM == 201
CMP_ZPG == 197
CMP_ZPX == 213
CMP_ABS == 205
CMP_ABX == 221
CMP_ABY == 217
CMP_IDX == 193
CMP_IDY == 209
CPX_IMM == 224
CPX_ZPG == 228
CPX_ABS == 236
CPY_IMM == 192
CPY_ZPG == 196
CPY_ABS == 204
BCC_REL == 144
BCS_REL == 176
BEQ_REL == 240
BNE_REL == 208
BPL_REL == 16
BMI_REL == 48
BVC_REL == 80
BVS_REL == 112
BIT_ZPG == 36
BIT_ABS == 44
ASL_ACC == 10
ASL_ZPG == 6
ASL_ZPX == 22
ASL_ABS == 14
ASL_ABX == 30
LSR_ACC == 74
LSR_ZPG == 70
LSR_ZPX == 86
LSR_ABS == 78
LSR_ABX == 94
ROL_ACC == 42
ROL_ZPG == 38
ROL_ZPX == 54
ROL_ABS == 46
ROL_ABX == 62
ROR_ACC == 106
ROR_ZPG == 102
ROR_ZPX == 118
ROR_ABS == 110
ROR_ABX == 126
AND_IMM == 41
AND_ZPG == 37
AND_ZPX == 53
AND_ABS == 45
AND_ABX == 61
AND_ABY == 57
AND_IDX == 33
AND_IDY == 49
EOR_IMM == 73
EOR_ZPG == 69
EOR_ZPX == 85
EOR_ABS == 77
EOR_ABX == 93
EOR_ABY == 89
EOR_IDX == 65
EOR_IDY == 81
ORA_IMM == 9
ORA_ZPG == 5
ORA_ZPX == 21
ORA_ABS == 13
ORA_ABX == 29
ORA_ABY == 25
ORA_IDX == 1
ORA_IDY == 17
CLC == 24
CLD == 216
CLI == 88
CLV == 184
SEC == 56
SED == 248
SEI == 120
INC_ZPG == 230
INC_ZPX == 246
INC_ABS == 238
INC_ABX == 254
INX == 232
INY == 200
DEC_ZPG == 198
DEC_ZPX == 214
DEC_ABS == 206
DEC_ABX == 222
DEX == 202
DEY == 136
JMP_ABS == 76
JMP_IND == 108
JSR_ABS == 32
RTS == 96
LDA_IMM == 169
LDA_ZPG == 165
LDA_ZPX == 181
LDA_ABS == 173
LDA_ABX == 189
LDA_ABY == 185
LDA_IDX == 161
LDA_IDY == 177
LDX_IMM == 162
LDX_ZPG == 166
LDX_ZPY == 182
LDX_ABS == 174
LDX_ABY == 190
LDY_IMM == 160
LDY_ZPG == 164
LDY_ZPY == 180
LDY_ABS == 172
LDY_ABY == 188
STA_ZPG == 133
STA_ZPX == 149
STA_ABS == 141
STA_ABX == 157
STA_ABY == 153
STA_IDX == 129
STA_IDY == 145
STX_ZPG == 134
STX_ZPY == 150
STX_ABS == 142
STY_ZPG == 132
STY_ZPX == 148
STY_ABS == 140
TAX == 170
TAY == 168
TSX == 186
TXA == 138
TXS == 154
TYA == 152
PHA == 72
PHP == 8
PLA == 104
PLP == 40
NOP == 234
BRK == 0
RTI == 64

\* Instruction::from_opcode: opcode, mnemonic, addressing mode, base cycles.
InstructionRows ==
    {
       <<ADC_IMM, "ADC", "IMM", 2>>,
       <<ADC_ZPG, "ADC", "ZPG", 3>>,
       <<ADC_ZPX, "ADC", "ZPX", 4>>,
       <<ADC_ABS, "ADC", "ABS", 4>>,
       <<ADC_ABX, "ADC", "ABX", 4>>,
       <<ADC_ABY, "ADC", "ABY", 4>>,
       <<ADC_IDX, "ADC", "IDX", 6>>,
       <<ADC_IDY, "ADC", "IDY", 5>>,
       <<SBC_IMM, "SBC", "IMM", 2>>,
       <<SBC_ZPG, "SBC", "ZPG", 3>>,
       <<SBC_ZPX, "SBC", "ZPX", 4>>,
       <<SBC_ABS, "SBC", "ABS", 4>>,
       <<SBC_ABX, "SBC", "ABX", 4>>,
       <<SBC_ABY, "SBC", "ABY", 4>>,
       <<SBC_IDX, "SBC", "IDX", 6>>,
       <<SBC_IDY, "SBC", "IDY", 5>>,
       <<CMP_IMM, "CMP", "IMM", 2>>,
       <<CMP_ZPG, "CMP", "ZPG", 3>>,
       <<CMP_ZPX, "CMP", "ZPX", 4>>,
       <<CMP_ABS, "CMP", "ABS", 4>>,
       <<CMP_ABX, "CMP", "ABX", 4>>,
       <<CMP_ABY, "CMP", "ABY", 4>>,
       <<CMP_IDX, "CMP", "IDX", 6>>,
       <<CMP_IDY, "CMP", "IDY", 5>>,
       <<CPX_IMM, "CPX", "IMM", 2>>,
       <<CPX_ZPG, "CPX", "ZPG", 3>>,
       <<CPX_ABS, "CPX", "ABS", 4>>,
       <<CPY_IMM, "CPY", "IMM", 2>>,
       <<CPY_ZPG, "CPY", "ZPG", 3>>,
       <<CPY_ABS, "CPY", "ABS", 4>>,
       <<BCC_REL, "BCC", "REL", 2>>,
       <<BCS_REL, "BCS", "REL", 2>>,
       <<BEQ_REL, "BEQ", "REL", 2>>,
       <<BNE_REL, "BNE", "REL", 2>>,
       <<BPL_REL, "BPL", "REL", 2>>,
       <<BMI_REL, "BMI", "REL", 2>>,
       <<BVC_REL, "BVC", "REL", 2>>,
       <<BVS_REL, "BVS", "REL", 2>>,
       <<BIT_ZPG, "BIT", "ZPG", 3>>,
       <<BIT_ABS, "BIT", "ABS", 4>>,
       <<ASL_ACC, "ASL", "ACC", 2>>,
       <<ASL_ZPG, "ASL", "ZPG", 5>>,
       <<ASL_ZPX, "ASL", "ZPX", 6>>,
       <<ASL_ABS, "ASL", "ABS", 6>>,
       <<ASL_ABX, "ASL", "ABX", 7>>,
       <<LSR_ACC, "LSR", "ACC", 2>>,
       <<LSR_ZPG, "LSR", "ZPG", 5>>,
       <<LSR_ZPX, "LSR", "ZPX", 6>>,
       <<LSR_ABS, "LSR", "ABS", 6>>,
       <<LSR_ABX, "LSR", "ABX", 7>>,
       <<ROL_ACC, "ROL", "ACC", 2>>,
       <<ROL_ZPG, "ROL", "ZPG", 5>>,
       <<ROL_ZPX, "ROL", "ZPX", 6>>,
       <<ROL_ABS, "ROL", "ABS", 6>>,
       <<ROL_ABX, "ROL", "ABX", 7>>,
       <<ROR_ACC, "ROR", "ACC", 2>>,
       <<ROR_ZPG, "ROR", "ZPG", 5>>,
       <<ROR_ZPX, "ROR", "ZPX", 6>>,
       <<ROR_ABS, "ROR", "ABS", 6>>,
       <<ROR_ABX, "ROR", "ABX", 7>>,
       <<AND_IMM, "AND", "IMM", 2>>,
       <<AND_ZPG, "AND", "ZPG", 3>>,
       <<AND_ZPX, "AND", "ZPX", 4>>,
       <<AND_ABS, "AND", "ABS", 4>>,
       <<AND_ABX, "AND", "ABX", 4>>,
       <<AND_ABY, "AND", "ABY", 4>>,
       <<AND_IDX, "AND", "IDX", 6>>,
       <<AND_IDY, "AND", "IDY", 5>>,
       <<EOR_IMM, "EOR", "IMM", 2>>,
       <<EOR_ZPG, "EOR", "ZPG", 3>>,
       <<EOR_ZPX, "EOR", "ZPX", 4>>,
       <<EOR_ABS, "EOR", "ABS", 4>>,
       <<EOR_ABX, "EOR", "ABX", 4>>,
       <<EOR_ABY, "EOR", "ABY", 4>>,
       <<EOR_IDX, "EOR", "IDX", 6>>,
       <<EOR_IDY, "EOR", "IDY", 5>>,
       <<ORA_IMM, "ORA", "IMM", 2>>,
       <<ORA_ZPG, "ORA", "ZPG", 3>>,
       <<ORA_ZPX, "ORA", "ZPX", 4>>,
       <<ORA_ABS, "ORA", "ABS", 4>>,
       <<ORA_ABX, "ORA", "ABX", 4>>,
       <<ORA_ABY, "ORA", "ABY", 4>>,
       <<ORA_IDX, "ORA", "IDX", 6>>,
       <<ORA_IDY, "ORA", "IDY", 5>>,
       <<CLC, "CLC", "IMP", 2>>,
       <<CLD, "CLD", "IMP", 2>>,
       <<CLI, "CLI", "IMP", 2>>,
       <<CLV, "CLV", "IMP", 2>>,
       <<SEC, "SEC", "IMP", 2>>,
       <<SED, "SED", "IMP", 2>>,
       <<SEI, "SEI", "IMP", 2>>,
       <<INC_ZPG, "INC", "ZPG", 5>>,
       <<INC_ZPX, "INC", "ZPX", 6>>,
       <<INC_ABS, "INC", "ABS", 6>>,
       <<INC_ABX, "INC", "ABX", 7>>,
       <<INX, "INX", "IMP", 2>>,
       <<INY, "INY", "IMP", 2>>,
       <<DEC_ZPG, "DEC", "ZPG", 5>>,
       <<DEC_ZPX, "DEC", "ZPX", 6>>,
       <<DEC_ABS, "DEC", "ABS", 6>>,
       <<DEC_ABX, "DEC", "ABX", 7>>,
       <<DEX, "DEX", "IMP", 2>>,
       <<DEY, "DEY", "IMP", 2>>,
       <<JMP_ABS, "JMP", "ABS", 3>>,
       <<JMP_IND, "JMP", "IND", 5>>,
       <<JSR_ABS, "JSR", "ABS", 6>>,
       <<RTS, "RTS", "IMP", 6>>,
       <<LDA_IMM, "LDA", "IMM", 2>>,
       <<LDA_ZPG, "LDA", "ZPG", 3>>,
       <<LDA_ZPX, "LDA", "ZPX", 4>>,
       <<LDA_ABS, "LDA", "ABS", 4>>,
       <<LDA_ABX, "LDA", "ABX", 4>>,
       <<LDA_ABY, "LDA", "ABY", 4>>,
       <<LDA_IDX, "LDA", "IDX", 6>>,
       <<LDA_IDY, "LDA", "IDY", 5>>,
       <<LDX_IMM, "LDX", "IMM", 2>>,
       <<LDX_ZPG, "LDX", "ZPG", 3>>,
       <<LDX_ZPY, "LDX", "ZPY", 4>>,
       <<LDX_ABS, "LDX", "ABS", 4>>,
       <<LDX_ABY, "LDX", "ABY", 4>>,
       <<LDY_IMM, "LDY", "IMM", 2>>,
       <<LDY_ZPG, "LDY", "ZPG", 3>>,
       <<LDY_ZPY, "LDY", "ZPY", 4>>,
       <<LDY_ABS, "LDY", "ABS", 4>>,
       <<LDY_ABY, "LDY", "ABY", 4>>,
       <<STA_ZPG, "STA", "ZPG", 3>>,
       <<STA_ZPX, "STA", "ZPX", 4>>,
       <<STA_ABS, "STA", "ABS", 4>>,
       <<STA_ABX, "STA", "ABX", 5>>,
       <<STA_ABY, "STA", "ABY", 5>>,
       <<STA_IDX, "STA", "IDX", 6>>,
       <<STA_IDY, "STA", "IDY", 6>>,
       <<STX_ZPG, "STX", "ZPG", 3>>,
       <<STX_ZPY, "STX", "ZPY", 4>>,
       <<STX_ABS, "STX", "ABS", 4>>,
       <<STY_ZPG, "STY", "ZPG", 3>>,
       <<STY_ZPX, "STY", "ZPX", 4>>,
       <<STY_ABS, "STY", "ABS", 4>>,
       <<TAX, "TAX", "IMP", 2>>,
       <<TAY, "TAY", "IMP", 2>>,
       <<TSX, "TSX", "IMP", 2>>,
       <<TXA, "TXA", "IMP", 2>>,
       <<TXS, "TXS", "IMP", 2>>,
       <<TYA, "TYA", "IMP", 2>>,
       <<PHA, "PHA", "IMP", 3>>,
       <<PHP, "PHP", "IMP", 3>>,
       <<PLA, "PLA", "IMP", 4>>,
       <<PLP, "PLP", "IMP", 4>>,
       <<NOP, "NOP", "IMP", 2>>,
       <<BRK, "BRK", "IMP", 7>>,
       <<RTI, "RTI", "IMP", 6>>
    }

DefinedOpcodes == {r[1] : r \in InstructionRows}

\* AddressingMode::instruction_bytes
instruction_bytes(addr_mode) ==
    CASE addr_mode \in {"IMP", "ACC", "IMM"} -> 1
      [] addr_mode \in {"ZPG", "ZPX", "ZPY", "REL", "IDX", "IDY"} -> 2
      [] addr_mode \in {"ABS", "ABX", "ABY", "IND"} -> 3

\* The Instruction of every defined opcode; bytes is Instruction::bytes().
Instructions ==
    [opcode \in DefinedOpcodes |->
        LET r == CHOOSE row \in InstructionRows : row[1] = opcode
        IN [opcode |-> r[1], mnemonic |-> r[2], addr_mode |-> r[3], cycles |-> r[4],
            bytes |-> instruction_bytes(r[3])]]

from_opcode(opcode) == Instructions[opcode]

(***************************************************************************)
(* Cpu (cpu.rs): construction, page test, stack, addressing.               *)
(***************************************************************************)
Cpu_create == [pc |-> 0, ac |-> 0, x |-> 0, y |-> 0, sr |-> StatusFlags_empty,
               sp |-> 0, cycles |-> 0]

is_page_different(cur_addr, target_addr) == (cur_addr \div 256) # (target_addr \div 256)

is_page_crossed(cur_addr, rel) ==
    is_page_different(cur_addr, wrapping_add_u16(cur_addr, i8_as_u16(rel)))

addr_stack(addr) == BitOr(STACK_BASE, addr)

\* The stack operations yield the new Cpu and Memory (or the value popped) and
\* the set of memory addresses they access.
stack_push_u8(c, m, value) ==
    [cpu |-> [c EXCEPT !.sp = wrapping_sub_u8(c.sp, 1)],
     mem |-> write_u8(m, Some(addr_stack(c.sp)), value),
     stack |-> {addr_stack(c.sp)}]

stack_push_u16(c, m, value) ==
    [cpu |-> [c EXCEPT !.sp = wrapping_sub_u8(c.sp, 2)],
     mem |-> write_u16(m, Some(addr_stack(c.sp)), value),
     stack |-> {addr_stack(c.sp), wrapping_add_u16(addr_stack(c.sp), 1)}]

\* A pop that reads the byte at the stack pointer before it increments it.
stack_pop_u8_read_first(c, m) ==
    [cpu |-> [c EXCEPT !.sp = wrapping_add_u8(c.sp, 1)],
     value |-> read_u8(m, addr_stack(c.sp)),
     stack |-> {addr_stack(c.sp)}]

stack_pop_u8(c, m) ==
    LET sp1 == wrapping_add_u8(c.sp, 1)
    IN [cpu |-> [c EXCEPT !.sp = sp1],
        value |-> read_u8(m, addr_stack(sp1)),
        stack |-> {addr_stack(sp1)}]

stack_pop_u16(c, m) ==
    LET sp1 == wrapping_add_u8(c.sp, 2)
    IN [cpu |-> [c EXCEPT !.sp = sp1],
        value |-> read_u16(m, addr_stack(sp1)),
        stack |-> {addr_stack(sp1), addr_stack(sp1) + 1}]

addr_zpg(addr) == BitOr(ZERO_PAGE_BASE, addr)
fetch_addr_zpg(c, m, addr) == addr_zpg(read_u8(m, addr))

\* Zero-page indexing that carries into page one.
addr_zpx_carrying(c, addr) == BitOr(ZERO_PAGE_BASE, addr + c.x)

addr_zpx(c, addr) == BitOr(ZERO_PAGE_BASE, wrapping_add_u8(addr, c.x))
fetch_addr_zpx(c, m, addr) == addr_zpx(c, read_u8(m, addr))

addr_zpy(c, addr) == BitOr(ZERO_PAGE_BASE, wrapping_add_u8(addr, c.y))
fetch_addr_zpy(c, m, addr) == addr_zpy(c, read_u8(m, addr))

addr_abs(addr) == addr
fetch_addr_abs(m, addr) ==
    LET a == read_u16(m, addr) IN IF a < 0 THEN a ELSE addr_abs(a)

addr_abx(c, addr) == wrapping_add_u16(addr, c.x)
fetch_addr_abx(c, m, addr) ==
    LET a == read_u16(m, addr) IN IF a < 0 THEN a ELSE addr_abx(c, a)

addr_aby(c, addr) == wrapping_add_u16(addr, c.y)
fetch_addr_aby(c, m, addr) ==
    LET a == read_u16(m, addr) IN IF a < 0 THEN a ELSE addr_aby(c, a)

\* The indirect jump of the hardware: the high byte of the target comes from
\* the start of the pointer's page when the pointer is in its last byte.
addr_ind_page_wrap(m, addr) ==
    BitOr(read_u8(m, addr),
          read_u8(m, ((addr \div 256) * 256) + ((addr + 1) % 256)) * 256)

addr_ind(m, addr) == read_u16(m, addr)
fetch_addr_ind(m, addr) ==
    LET a == read_u16(m, addr) IN IF a < 0 THEN a ELSE addr_ind(m, a)

\* An IDX pointer that carries into page one.
addr_idx_carrying(c, m, addr) == read_u16(m, BitOr(ZERO_PAGE_BASE, addr + c.x))

addr_idx(c, m, addr) == read_u16(m, BitOr(ZERO_PAGE_BASE, wrapping_add_u8(addr, c.x)))
fetch_addr_idx(c, m, addr) == addr_idx(c, m, read_u8(m, addr))

addr_idy(c, m, addr) ==
    LET a == read_u16(m, BitOr(ZERO_PAGE_BASE, addr))
    IN IF a < 0 THEN a ELSE wrapping_add_u16(a, c.y)
fetch_addr_idy(c, m, addr) == addr_idy(c, m, read_u8(m, addr))

addr_rel(c, rel) == wrapping_add_u16(c.pc, i8_as_u16(rel))
fetch_addr_rel(c, m, addr) == addr_rel(c, read_i8(m, addr))

\* An effective address, Overflow, or Unhandled for the modes of the `_` arm.
fetch_addr(c, m, ins, addr) ==
    CASE ins.addr_mode = "ZPG" -> fetch_addr_zpg(c, m, addr)
      [] ins.addr_mode = "ZPX" -> fetch_addr_zpx(c, m, addr)
      [] ins.addr_mode = "ZPY" -> fetch_addr_zpy(c, m, addr)
      [] ins.addr_mode = "ABS" -> fetch_addr_abs(m, addr)
      [] ins.addr_mode = "ABX" -> fetch_addr_abx(c, m, addr)
      [] ins.addr_mode = "ABY" -> fetch_addr_aby(c, m, addr)
      [] ins.addr_mode = "IND" -> fetch_addr_ind(m, addr)
      [] ins.addr_mode = "IDX" -> fetch_addr_idx(c, m, addr)
      [] ins.addr_mode = "IDY" -> fetch_addr_idy(c, m, addr)
      [] OTHER -> Unhandled

(***************************************************************************)
(* Cpu::handle_opcode.  Every arm yields the Cpu and the Memory it leaves, *)
(* the additional cycles, the panic that ended it ("none" when it          *)
(* returned) and the addresses its stack operations accessed.              *)
(***************************************************************************)
Returned(c, m, cycles_additional, stack) ==
    [cpu |-> c, mem |-> m, cycles_additional |-> cycles_additional,
     panic |-> "none", stack |-> stack]

Panicked(c, m, why, stack) ==
    [cpu |-> c, mem |-> m, cycles_additional |-> 0, panic |-> why, stack |-> stack]

\* The panic behind a value that is no address or byte.
PanicOf(v) == IF v = Overflow THEN "overflow" ELSE "addr_mode"

\* `value` of the reading arms: the byte at cur_addr in immediate mode, else
\* the byte at the effective address.
read_operand(c, m, ins, cur_addr) ==
    IF ins.addr_mode = "IMM" THEN read_u8(m, cur_addr)
    ELSE LET addr == fetch_addr(c, m, ins, cur_addr)
         IN IF addr < 0 THEN addr ELSE read_u8(m, addr)

\* sr.set(N, value & 0x80 != 0); sr.set(Z, value == 0)
set_nz(s, value) == set(set(s, N, BitAnd(value, 128) # 0), Z, value = 0)

\* The overflow test of ADC without the negation of AC ^ value.
adc_overflow_without_not(a, value, result) ==
    BitAnd(BitAnd(BitXor(a, value), BitXor(a, result)), 128) # 0

\* The overflow flag ADC sets.
adc_overflow(a, value, result) ==
    BitAnd(BitAnd(BitNot(BitXor(a, value)), BitXor(a, result)), 128) # 0

\* The overflow test of SBC without the comparison of AC with the operand.
sbc_overflow_ignoring_operand(a, value, result) ==
    BitAnd(BitXor(a, result), 128) # 0

\* The overflow flag SBC sets.
sbc_overflow(a, value, result) ==
    BitAnd(BitAnd(BitXor(a, value), BitXor(a, result)), 128) # 0

\* ADC: sum in u16, the result its low byte.
op_adc(c, m, value) ==
    LET sum == c.ac + value + (IF contains(c.sr, C) THEN 1 ELSE 0)
        result == BitAnd(sum, 255)
        s1 == set(c.sr, C, sum > 255)
        s2 == set(s1, V, adc_overflow(c.ac, value, result))
    IN Returned([c EXCEPT !.sr = set_nz(s2, result), !.ac = result], m, 0, {})

\* SBC: the difference in u16; each `-` may overflow.
op_sbc(c, m, value) ==
    LET d1 == sub_u16(c.ac, value)
        difference == IF d1 < 0 THEN d1
                      ELSE sub_u16(d1, IF contains(c.sr, C) THEN 0 ELSE 1)
        result == BitAnd(difference, 255)
        s1 == set(c.sr, C, difference < 256)
        s2 == set(s1, V, sbc_overflow(c.ac, value, result))
    IN IF difference < 0 THEN Panicked(c, m, "overflow", {})
       ELSE Returned([c EXCEPT !.sr = set_nz(s2, result), !.ac = result], m, 0, {})

\* ADC and SBC that do binary arithmetic whatever the D flag is.
op_adc_sbc_binary(c, m, ins, cur_addr) ==
    LET computed(value) ==
            IF value < 0 THEN Panicked(c, m, PanicOf(value), {})
            ELSE IF ins.mnemonic = "ADC" THEN op_adc(c, m, value)
            ELSE op_sbc(c, m, value)
    IN computed(read_operand(c, m, ins, cur_addr))

op_adc_sbc(c, m, ins, cur_addr) ==
    IF contains(c.sr, D) THEN Panicked(c, m, "bcd", {})
    ELSE LET value == read_operand(c, m, ins, cur_addr)
         IN IF value < 0 THEN Panicked(c, m, PanicOf(value), {})
            ELSE IF ins.mnemonic = "ADC" THEN op_adc(c, m, value)
            ELSE op_sbc(c, m, value)

\* The flags CMP, CPX and CPY leave for register reg and operand value.
compare_flags(s, reg, value) ==
    IF reg < value
    THEN set(set(set(s, Z, FALSE), C, FALSE), N,
             BitAnd(wrapping_sub_u8(reg, value), 128) # 0)
    ELSE IF reg > value
    THEN set(set(set(s, Z, FALSE), C, TRUE), N,
             BitAnd(wrapping_sub_u8(reg, value), 128) # 0)
    ELSE set(set(set(s, Z, TRUE), C, TRUE), N, FALSE)

op_compare(c, m, ins, cur_addr) ==
    IF contains(c.sr, D) THEN Panicked(c, m, "bcd", {})
    ELSE LET value == read_operand(c, m, ins, cur_addr)
             reg == CASE ins.mnemonic = "CMP" -> c.ac
                      [] ins.mnemonic = "CPX" -> c.x
                      [] ins.mnemonic = "CPY" -> c.y
         IN IF value < 0 THEN Panicked(c, m, PanicOf(value), {})
            ELSE Returned([c EXCEPT !.sr = compare_flags(c.sr, reg, value)], m, 0, {})

op_jmp(c, m, ins, cur_addr) ==
    LET addr == fetch_addr(c, m, ins, cur_addr)
    IN IF addr < 0 THEN Panicked(c, m, PanicOf(addr), {})
       ELSE Returned([c EXCEPT !.pc = addr], m, 0, {})

\* A return address that is the address of the next instruction.
return_address_as_pc(c, ins) == c.pc

\* `self.pc - ins.bytes as u16 + 2` of JSR and BRK.
return_address(c, ins) ==
    LET d == sub_u16(c.pc, ins.bytes) IN IF d < 0 THEN d ELSE add_u16(d, 2)

op_jsr(c, m, ins, cur_addr) ==
    LET ret == return_address(c, ins)
        p == stack_push_u16(c, m, ret)
        addr == fetch_addr_abs(p.mem, cur_addr)
    IN IF ret < 0 THEN Panicked(c, m, "overflow", {})
       ELSE IF addr < 0 THEN Panicked(p.cpu, p.mem, "overflow", p.stack)
       ELSE Returned([p.cpu EXCEPT !.pc = addr], p.mem, 0, p.stack)

op_rts(c, m) ==
    LET p == stack_pop_u16(c, m)
        addr == IF p.value < 0 THEN p.value ELSE add_u16(p.value, 1)
    IN IF addr < 0 THEN Panicked(p.cpu, m, "overflow", p.stack)
       ELSE Returned([p.cpu EXCEPT !.pc = addr], m, 0, p.stack)

\* A BRK that sets B in the status of the cpu as well as in the byte pushed.
op_brk_sets_b(c, m, ins) ==
    LET pushed(ret, p1) ==
            LET p2 == stack_push_u8(p1.cpu, p1.mem, union(c.sr, B))
            IN Returned([p2.cpu EXCEPT !.sr = set(union(c.sr, B), I, TRUE),
                                       !.pc = read_u16(p2.mem, VECTOR_IRQ)],
                        p2.mem, 0, p1.stack \cup p2.stack)
        returning(ret) ==
            IF ret < 0 THEN Panicked(c, m, "overflow", {})
            ELSE pushed(ret, stack_push_u16(c, m, ret))
    IN returning(return_address(c, ins))

op_brk(c, m, ins) ==
    LET ret == return_address(c, ins)
        p1 == stack_push_u16(c, m, ret)
        p2 == stack_push_u8(p1.cpu, p1.mem, union(c.sr, B))
        s == set(c.sr, I, TRUE)
        vec == read_u16(p2.mem, VECTOR_IRQ)
    IN IF ret < 0 THEN Panicked(c, m, "overflow", {})
       ELSE Returned([p2.cpu EXCEPT !.sr = s, !.pc = vec], p2.mem, 0,
                     p1.stack \cup p2.stack)

\* A pull that takes every bit from the pulled byte.
pulled_status_as_pulled(s, value) == from_bits_truncate(value)

\* The status a pull leaves: the pulled byte, with RESERVED and B of the
\* current status.
pulled_status(s, value) ==
    LET ssr == from_bits_truncate(value)
    IN set(set(ssr, RESERVED, contains(s, RESERVED)), B, contains(s, B))

\* An RTI that returns behind the address it pops, as RTS does.
op_rti_like_rts(c, m) ==
    LET popped(p1, p2) ==
            Returned([p2.cpu EXCEPT !.sr = pulled_status(c.sr, p1.value),
                                    !.pc = wrapping_add_u16(p2.value, 1)],
                     m, 0, p1.stack \cup p2.stack)
        pulled(p1) == popped(p1, stack_pop_u16(p1.cpu, m))
    IN pulled(stack_pop_u8(c, m))

op_rti(c, m) ==
    LET p1 == stack_pop_u8(c, m)
        p2 == stack_pop_u16(p1.cpu, m)
    IN IF p2.value < 0 THEN Panicked(p2.cpu, m, "overflow", p1.stack \cup p2.stack)
       ELSE Returned([p2.cpu EXCEPT !.sr = pulled_status(c.sr, p1.value),
                                    !.pc = p2.value],
                     m, 0, p1.stack \cup p2.stack)

\* A BIT whose Z tells whether the operand is 0, whatever AC holds.
op_bit_z_of_operand(c, m, ins, cur_addr) ==
    LET addr == fetch_addr(c, m, ins, cur_addr)
        value == read_u8(m, addr)
        s1 == set(c.sr, N, BitAnd(value, N) # 0)
        s2 == set(s1, V, BitAnd(value, V) # 0)
        s3 == set(s2, Z, value = 0)
    IN IF addr < 0 THEN Panicked(c, m, PanicOf(addr), {})
       ELSE Returned([c EXCEPT !.sr = s3], m, 0, {})

op_bit(c, m, ins, cur_addr) ==
    LET addr == fetch_addr(c, m, ins, cur_addr)
        value == read_u8(m, addr)
        s1 == set(c.sr, N, BitAnd(value, N) # 0)
        s2 == set(s1, V, BitAnd(value, V) # 0)
        s3 == set(s2, Z, BitAnd(value, c.ac) = 0)
    IN IF addr < 0 THEN Panicked(c, m, PanicOf(addr), {})
       ELSE Returned([c EXCEPT !.sr = s3], m, 0, {})

\* ASL, LSR, ROL, ROR on the accumulator or on the byte at the effective address.
\* Rotates that shift in the carry they have just set instead of the carry
\* they found.
op_shift_rotating_new_carry(c, m, ins, cur_addr) ==
    LET acc == ins.addr_mode = "ACC"
        addr == IF acc THEN cur_addr ELSE fetch_addr(c, m, ins, cur_addr)
        value == IF acc THEN c.ac ELSE read_u8(m, addr)
        left == ins.mnemonic \in {"ASL", "ROL"}
        s1 == IF left THEN set(c.sr, C, BitAnd(value, 128) # 0)
              ELSE set(c.sr, C, BitAnd(value, 1) # 0)
        carry_new == contains(s1, C)
        shifted == IF left THEN shl1(value) ELSE shr1(value)
        rotated == CASE ins.mnemonic = "ROL" -> BitOr(shifted, IF carry_new THEN 1 ELSE 0)
                     [] ins.mnemonic = "ROR" -> BitOr(shifted, IF carry_new THEN 128 ELSE 0)
                     [] OTHER -> shifted
        s2 == set(set(s1, N, BitAnd(rotated, 128) # 0), Z, rotated = 0)
    IN IF addr < 0 THEN Panicked(c, m, PanicOf(addr), {})
       ELSE IF acc THEN Returned([c EXCEPT !.sr = s2, !.ac = rotated], m, 0, {})
       ELSE Returned([c EXCEPT !.sr = s2], write_u8(m, Some(addr), rotated), 0, {})

op_shift(c, m, ins, cur_addr) ==
    LET acc == ins.addr_mode = "ACC"
        addr == IF acc THEN cur_addr ELSE fetch_addr(c, m, ins, cur_addr)
        value == IF acc THEN c.ac ELSE read_u8(m, addr)
        carry_orig == contains(c.sr, C)
        left == ins.mnemonic \in {"ASL", "ROL"}
        s1 == IF left THEN set(c.sr, C, BitAnd(value, 128) # 0)
              ELSE set(c.sr, C, BitAnd(value, 1) # 0)
        shifted == IF left THEN shl1(value) ELSE shr1(value)
        rotated == CASE ins.mnemonic = "ROL" -> BitOr(shifted, IF carry_orig THEN 1 ELSE 0)
                     [] ins.mnemonic = "ROR" -> BitOr(shifted, IF carry_orig THEN 128 ELSE 0)
                     [] OTHER -> shifted
        s2 == set(set(s1, N, BitAnd(rotated, 128) # 0), Z, rotated = 0)
    IN IF addr < 0 THEN Panicked(c, m, PanicOf(addr), {})
       ELSE IF acc THEN Returned([c EXCEPT !.sr = s2, !.ac = rotated], m, 0, {})
       ELSE Returned([c EXCEPT !.sr = s2], write_u8(m, Some(addr), rotated), 0, {})

\* Logical instructions whose EOR is an inclusive or.
op_logical_eor_as_ora(c, m, ins, cur_addr) ==
    LET value == read_operand(c, m, ins, cur_addr)
        result == CASE ins.mnemonic = "AND" -> BitAnd(c.ac, value)
                    [] ins.mnemonic = "EOR" -> BitOr(c.ac, value)
                    [] ins.mnemonic = "ORA" -> BitOr(c.ac, value)
    IN IF value < 0 THEN Panicked(c, m, PanicOf(value), {})
       ELSE Returned([c EXCEPT !.ac = result, !.sr = set_nz(c.sr, result)], m, 0, {})

op_logical(c, m, ins, cur_addr) ==
    LET value == read_operand(c, m, ins, cur_addr)
        result == CASE ins.mnemonic = "AND" -> BitAnd(c.ac, value)
                    [] ins.mnemonic = "EOR" -> BitXor(c.ac, value)
                    [] ins.mnemonic = "ORA" -> BitOr(c.ac, value)
    IN IF value < 0 THEN Panicked(c, m, PanicOf(value), {})
       ELSE Returned([c EXCEPT !.ac = result, !.sr = set_nz(c.sr, result)], m, 0, {})

\* Flag instructions whose CLV clears the carry together with V.
op_flag_clv_clears_carry(c, m, ins) ==
    LET s == CASE ins.mnemonic = "CLC" -> remove(c.sr, C)
               [] ins.mnemonic = "CLD" -> remove(c.sr, D)
               [] ins.mnemonic = "CLI" -> remove(c.sr, I)
               [] ins.mnemonic = "CLV" -> remove(c.sr, BitOr(V, C))
               [] ins.mnemonic = "SEC" -> insert(c.sr, C)
               [] ins.mnemonic = "SED" -> insert(c.sr, D)
               [] ins.mnemonic = "SEI" -> insert(c.sr, I)
    IN Returned([c EXCEPT !.sr = s], m, 0, {})

op_flag(c, m, ins) ==
    LET s == CASE ins.mnemonic = "CLC" -> remove(c.sr, C)
               [] ins.mnemonic = "CLD" -> remove(c.sr, D)
               [] ins.mnemonic = "CLI" -> remove(c.sr, I)
               [] ins.mnemonic = "CLV" -> remove(c.sr, V)
               [] ins.mnemonic = "SEC" -> insert(c.sr, C)
               [] ins.mnemonic = "SED" -> insert(c.sr, D)
               [] ins.mnemonic = "SEI" -> insert(c.sr, I)
    IN Returned([c EXCEPT !.sr = s], m, 0, {})

\* Whether the branch of this mnemonic is taken under status s.
branch_taken(s, mnemonic) ==
    CASE mnemonic = "BCC" -> ~contains(s, C)
      [] mnemonic = "BCS" -> contains(s, C)
      [] mnemonic = "BEQ" -> contains(s, Z)
      [] mnemonic = "BNE" -> ~contains(s, Z)
      [] mnemonic = "BPL" -> ~contains(s, N)
      [] mnemonic = "BMI" -> contains(s, N)
      [] mnemonic = "BVC" -> ~contains(s, V)
      [] mnemonic = "BVS" -> contains(s, V)

op_branch(c, m, ins, cur_addr) ==
    LET jmp == branch_taken(c.sr, ins.mnemonic)
        addr == fetch_addr_rel(c, m, cur_addr)
    IN IF jmp
       THEN Returned([c EXCEPT !.pc = addr], m,
                     IF is_page_different(c.pc, addr) THEN 2 ELSE 1, {})
       ELSE Returned(c, m, 0, {})

op_inc_dec(c, m, ins, cur_addr) ==
    LET addr == fetch_addr(c, m, ins, cur_addr)
        old == read_u8(m, addr)
        value == IF ins.mnemonic = "INC" THEN wrapping_add_u8(old, 1)
                 ELSE wrapping_sub_u8(old, 1)
        s == set(set(c.sr, Z, value = 0), N, BitAnd(value, 128) # 0)
    IN IF addr < 0 THEN Panicked(c, m, PanicOf(addr), {})
       ELSE Returned([c EXCEPT !.sr = s], write_u8(m, Some(addr), value), 0, {})

op_inc_dec_reg(c, m, ins) ==
    LET old == IF ins.mnemonic \in {"INX", "DEX"} THEN c.x ELSE c.y
        value == IF ins.mnemonic \in {"INX", "INY"} THEN wrapping_add_u8(old, 1)
                 ELSE wrapping_sub_u8(old, 1)
        s == set(set(c.sr, Z, value = 0), N, BitAnd(value, 128) # 0)
        c1 == IF ins.mnemonic \in {"INX", "DEX"} THEN [c EXCEPT !.x = value]
              ELSE [c EXCEPT !.y = value]
    IN Returned([c1 EXCEPT !.sr = s], m, 0, {})

op_load(c, m, ins, cur_addr) ==
    LET value == read_operand(c, m, ins, cur_addr)
        c1 == CASE ins.mnemonic = "LDA" -> [c EXCEPT !.ac = value]
                [] ins.mnemonic = "LDX" -> [c EXCEPT !.x = value]
                [] ins.mnemonic = "LDY" -> [c EXCEPT !.y = value]
        s == set(set(c.sr, Z, value = 0), N, BitAnd(value, 128) # 0)
    IN IF value < 0 THEN Panicked(c, m, PanicOf(value), {})
       ELSE Returned([c1 EXCEPT !.sr = s], m, 0, {})

\* A store that sets N and Z from the byte it stores, as a load does.
op_store_setting_flags(c, m, ins, cur_addr) ==
    LET addr == fetch_addr(c, m, ins, cur_addr)
        value == CASE ins.mnemonic = "STA" -> c.ac
                   [] ins.mnemonic = "STX" -> c.x
                   [] ins.mnemonic = "STY" -> c.y
    IN IF addr < 0 THEN Panicked(c, m, PanicOf(addr), {})
       ELSE Returned([c EXCEPT !.sr = set_nz(c.sr, value)],
                     write_u8(m, Some(addr), value), 0, {})

op_store(c, m, ins, cur_addr) ==
    LET addr == fetch_addr(c, m, ins, cur_addr)
        value == CASE ins.mnemonic = "STA" -> c.ac
                   [] ins.mnemonic = "STX" -> c.x
                   [] ins.mnemonic = "STY" -> c.y
    IN IF addr < 0 THEN Panicked(c, m, PanicOf(addr), {})
       ELSE Returned(c, write_u8(m, Some(addr), value), 0, {})

\* A transfer that sets N and Z for TXS as for the other five.
op_transfer_txs_sets_flags(c, m, ins) ==
    LET value == CASE ins.mnemonic \in {"TAY", "TAX"} -> c.ac
                   [] ins.mnemonic \in {"TXA", "TXS"} -> c.x
                   [] ins.mnemonic = "TYA" -> c.y
                   [] ins.mnemonic = "TSX" -> c.sp
        c1 == CASE ins.mnemonic \in {"TXA", "TYA"} -> [c EXCEPT !.ac = value]
                [] ins.mnemonic \in {"TAX", "TSX"} -> [c EXCEPT !.x = value]
                [] ins.mnemonic = "TAY" -> [c EXCEPT !.y = value]
                [] ins.mnemonic = "TXS" -> [c EXCEPT !.sp = value]
        s == set(set(c.sr, Z, value = 0), N, BitAnd(value, 128) # 0)
    IN Returned([c1 EXCEPT !.sr = s], m, 0, {})

op_transfer(c, m, ins) ==
    LET value == CASE ins.mnemonic \in {"TAY", "TAX"} -> c.ac
                   [] ins.mnemonic \in {"TXA", "TXS"} -> c.x
                   [] ins.mnemonic = "TYA" -> c.y
                   [] ins.mnemonic = "TSX" -> c.sp
        c1 == CASE ins.mnemonic \in {"TXA", "TYA"} -> [c EXCEPT !.ac = value]
                [] ins.mnemonic \in {"TAX", "TSX"} -> [c EXCEPT !.x = value]
                [] ins.mnemonic = "TAY" -> [c EXCEPT !.y = value]
                [] ins.mnemonic = "TXS" -> [c EXCEPT !.sp = value]
        s == set(set(c.sr, Z, value = 0), N, BitAnd(value, 128) # 0)
    IN IF ins.mnemonic # "TXS" THEN Returned([c1 EXCEPT !.sr = s], m, 0, {})
       ELSE Returned(c1, m, 0, {})

\* A PHP that pushes the status as it is in the cpu.
op_push_status_as_is(c, m, ins) ==
    LET pushed(p) == Returned(p.cpu, p.mem, 0, p.stack)
    IN pushed(stack_push_u8(c, m, IF ins.mnemonic = "PHA" THEN c.ac ELSE c.sr))

op_push(c, m, ins) ==
    LET value == IF ins.mnemonic = "PHA" THEN c.ac
                 ELSE union(c.sr, BitOr(RESERVED, B))
        p == stack_push_u8(c, m, value)
    IN Returned(p.cpu, p.mem, 0, p.stack)

\* A PLA that clears the stack byte it has pulled.
op_pla_clearing_slot(c, m) ==
    LET pulled(p) ==
            Returned([p.cpu EXCEPT !.ac = p.value,
                                   !.sr = set(set(p.cpu.sr, Z, p.value = 0), N,
                                              BitAnd(p.value, 128) # 0)],
                     write_u8(m, Some(addr_stack(p.cpu.sp)), 0), 0, p.stack)
    IN pulled(stack_pop_u8(c, m))

op_pla(c, m) ==
    LET p == stack_pop_u8(c, m)
        s == set(set(p.cpu.sr, Z, p.value = 0), N, BitAnd(p.value, 128) # 0)
    IN Returned([p.cpu EXCEPT !.ac = p.value, !.sr = s], m, 0, p.stack)

\* A PLP that takes B from the byte it pulls.
op_plp_pulling_b(c, m) ==
    LET pulled(p) ==
            Returned([p.cpu EXCEPT !.sr = set(from_bits_truncate(p.value), RESERVED,
                                              contains(c.sr, RESERVED))],
                     m, 0, p.stack)
    IN pulled(stack_pop_u8(c, m))

op_plp(c, m) ==
    LET p == stack_pop_u8(c, m)
    IN Returned([p.cpu EXCEPT !.sr = pulled_status(c.sr, p.value)], m, 0, p.stack)

handle_opcode(c, m, ins, cur_addr) ==
    CASE ins.mnemonic = "NOP" -> Returned(c, m, 0, {})
      [] ins.mnemonic \in {"ADC", "SBC"} -> op_adc_sbc(c, m, ins, cur_addr)
      [] ins.mnemonic \in {"CMP", "CPX", "CPY"} -> op_compare(c, m, ins, cur_addr)
      [] ins.mnemonic = "JMP" -> op_jmp(c, m, ins, cur_addr)
      [] ins.mnemonic = "JSR" -> op_jsr(c, m, ins, cur_addr)
      [] ins.mnemonic = "RTS" -> op_rts(c, m)
      [] ins.mnemonic = "BRK" -> op_brk(c, m, ins)
      [] ins.mnemonic = "RTI" -> op_rti(c, m)
      [] ins.mnemonic = "BIT" -> op_bit(c, m, ins, cur_addr)
      [] ins.mnemonic \in {"ASL", "LSR", "ROL", "ROR"} -> op_shift(c, m, ins, cur_addr)
      [] ins.mnemonic \in {"AND", "EOR", "ORA"} -> op_logical(c, m, ins, cur_addr)
      [] ins.mnemonic \in {"CLC", "CLD", "CLI", "CLV", "SEC", "SED", "SEI"} ->
            op_flag(c, m, ins)
      [] ins.mnemonic \in {"BCC", "BCS", "BEQ", "BNE", "BPL", "BMI", "BVC", "BVS"} ->
            op_branch(c, m, ins, cur_addr)
      [] ins.mnemonic \in {"INC", "DEC"} -> op_inc_dec(c, m, ins, cur_addr)
      [] ins.mnemonic \in {"INX", "INY", "DEX", "DEY"} -> op_inc_dec_reg(c, m, ins)
      [] ins.mnemonic \in {"LDA", "LDX", "LDY"} -> op_load(c, m, ins, cur_addr)
      [] ins.mnemonic \in {"STA", "STX", "STY"} -> op_store(c, m, ins, cur_addr)
      [] ins.mnemonic \in {"TAX", "TAY", "TSX", "TXA", "TXS", "TYA"} ->
            op_transfer(c, m, ins)
      [] ins.mnemonic \in {"PHA", "PHP"} -> op_push(c, m, ins)
      [] ins.mnemonic = "PLA" -> op_pla(c, m)
      [] ins.mnemonic = "PLP" -> op_plp(c, m)

(***************************************************************************)
(* Cpu::reset, Cpu::dump_ins and one iteration of the loop of Cpu::exec.   *)
(***************************************************************************)
Cpu_reset(c, m) ==
    LET m1 == Memory_reset(m)
    IN [cpu |-> [pc |-> read_u16(m1, VECTOR_RES), ac |-> 0, x |-> 0, y |-> 0,
                 sr |-> StatusFlags_default, sp |-> INITIAL_STACK_POINTER,
                 cycles |-> CYCLES_AFTER_RESET],
        mem |-> m1]

\* dump_ins prints the instruction; what matters here is whether it panics:
\* it reads the 16-bit operand of a 3-byte instruction and calls fetch_addr
\* for every mode but IMP, ACC and IMM.  "none" when it returns.
dump_ins(c, m, ins) ==
    LET addr_operand == wrapping_add_u16(c.pc, 1)
        dumped(oper, calculated) ==
            IF oper < 0 THEN PanicOf(oper)
            ELSE IF calculated < 0 THEN PanicOf(calculated)
            ELSE "none"
    IN dumped(IF ins.bytes = 3 THEN read_u16(m, addr_operand) ELSE 0,
              IF ins.addr_mode \in {"IMP", "ACC", "IMM"} THEN 0
              ELSE fetch_addr(c, m, ins, addr_operand))

\* The body of `while cycles_to_execute > 0`: fetch, decode, advance PC,
\* execute, count the cycles.  consumed is cycles_consumed.
exec_iteration(c, m) ==
    LET stopped(why) ==
            [cpu |-> c, mem |-> m, panic |-> why, consumed |-> 0, stack |-> {}]
        \* after handle_opcode: cycles_consumed = ins.cycles + cycles_additional
        counted(ins, h) ==
            IF h.panic # "none"
            THEN [cpu |-> h.cpu, mem |-> h.mem, panic |-> h.panic, consumed |-> 0,
                  stack |-> h.stack]
            ELSE [cpu |-> [h.cpu EXCEPT !.cycles =
                              saturating_add(@, ins.cycles + h.cycles_additional)],
                  mem |-> h.mem, panic |-> "none",
                  consumed |-> ins.cycles + h.cycles_additional,
                  stack |-> h.stack]
        \* after dump_ins: self.pc += ins.bytes, then handle_opcode
        executed(ins, cur_addr, pc1) ==
            IF pc1 < 0 THEN stopped("overflow")
            ELSE counted(ins, handle_opcode([c EXCEPT !.pc = pc1], m, ins, cur_addr))
        \* after from_opcode returned Ok(ins)
        decoded(ins, cur_addr, dumped) ==
            IF dumped # "none" THEN stopped(dumped)
            ELSE executed(ins, cur_addr, add_u16(c.pc, ins.bytes))
        \* after the opcode was read and cur_addr = self.pc + 1 computed
        fetched(opcode, cur_addr) ==
            IF cur_addr < 0 THEN stopped("overflow")
            ELSE IF opcode \notin DefinedOpcodes THEN stopped("decode")
            ELSE decoded(from_opcode(opcode), cur_addr,
                         dump_ins(c, m, from_opcode(opcode)))
    IN fetched(read_u8(m, c.pc), add_u16(c.pc, 1))

(***************************************************************************)
(* The fixture: what a caller does between reset and exec.  The tests of   *)
(* cpu.rs assign ac, x, y, sp and flags of sr and write the program and    *)
(* its data with write_u8 and write_u16, with an address or appending.     *)
(***************************************************************************)
W8(addr, value) == [kind |-> "u8", addr |-> addr, value |-> value]
W16(addr, value) == [kind |-> "u16", addr |-> addr, value |-> value]

RECURSIVE apply_writes(_, _)
apply_writes(m, writes) ==
    IF writes = <<>> THEN m
    ELSE LET w == Head(writes)
             m1 == IF w.kind = "u8" THEN write_u8(m, w.addr, w.value)
                   ELSE write_u16(m, w.addr, w.value)
         IN apply_writes(m1, Tail(writes))

RECURSIVE writes_panic(_, _)
writes_panic(m, writes) ==
    IF writes = <<>> THEN FALSE
    ELSE LET w == Head(writes)
         IN \/ write_panics(m, w.addr)
            \/ writes_panic(IF w.kind = "u8" THEN write_u8(m, Some(0), w.value)
                            ELSE write_u16(m, Some(0), w.value), Tail(writes))

Fixture(name, a, xr, yr, s, flags, writes) ==
    [name |-> name, ac |-> a, x |-> xr, y |-> yr, sp |-> s, flags |-> flags,
     writes |-> writes, cycles |-> CYCLES_AFTER_RESET]

\* An instruction at the reset address, written as the tests write it.
Ins1(op) == <<W8(Some(ADDR_RESET_VECTOR), op)>>
Ins2(op, b) == <<W8(Some(ADDR_RESET_VECTOR), op), W8(None, b)>>
Ins3(op, w) == <<W8(Some(ADDR_RESET_VECTOR), op), W16(None, w)>>

\* The bytes the fixtures draw register and operand values from.
ByteVals == {0, 1, 10, 127, 128, 255}
\* The flag sets the fixtures insert into the status after reset.
FlagVals == {0, C, Z, I, D, V, N, BitOr(C, BitOr(Z, BitOr(I, BitOr(V, N))))}

\* Every byte value the fixtures place as an opcode: the defined opcodes
\* and two bytes the table does not define.
UndefinedSamples == {2, 255}
OpcodeBytes == DefinedOpcodes \cup UndefinedSamples

\* One instruction of every opcode with two operand bytes behind it.
SingleFixtures ==
    { Fixture("single", 129, i, i, INITIAL_STACK_POINTER, 0, Ins3(op, w)) :
        op \in OpcodeBytes, w \in {10, 384, 65535}, i \in {0, 1} }

\* Bytes around both ends of the stack page.
StackImage(kind) ==
    LET v(n) == CASE kind = "ones" -> 255
                  [] kind = "pattern" -> 17 * n
                  [] OTHER -> 0
    IN IF kind = "zero" THEN <<>>
       ELSE << W8(Some(STACK_BASE), v(1)), W8(None, v(2)), W8(None, v(3)),
               W8(Some(STACK_BASE + 254), v(4)), W8(None, v(5)), W8(None, v(6)) >>

StackOpcodes == {PHA, PHP, PLA, PLP, JSR_ABS, RTS, BRK, RTI}
SpVals == {0, 1, 2, 253, 254, 255}

\* The stack instructions at every interesting stack pointer.
StackFlagVals == {0, B, BitOr(C, N)}
StackFixtures ==
    { Fixture("stack", 129, 0, 0, s, f, StackImage(kind) \o Ins3(op, 4660)) :
        op \in StackOpcodes, s \in SpVals, kind \in {"zero", "ones", "pattern"},
        f \in StackFlagVals }

BranchOpcodes == {BCC_REL, BCS_REL, BEQ_REL, BNE_REL, BMI_REL, BPL_REL, BVC_REL, BVS_REL}

\* The branches, taken and not taken, forward and backward.
BranchFixtures ==
    { Fixture("branch", 0, 0, 0, INITIAL_STACK_POINTER, f, Ins2(op, rel)) :
        op \in BranchOpcodes, rel \in {0, 16, 127, 128, 240}, f \in {0, C, Z, V, N} }

AluOperandAddr == 16

\* ADC, SBC and the compares over the sample bytes and flag sets, with an
\* immediate operand and with an operand in the zero page.
AluFixtures ==
    { Fixture("alu", r, r, r, INITIAL_STACK_POINTER, f,
              IF op \in {ADC_ZPG, SBC_ZPG, CMP_ZPG}
              THEN <<W8(Some(AluOperandAddr), v)>> \o Ins2(op, AluOperandAddr)
              ELSE Ins2(op, v)) :
        op \in {ADC_IMM, ADC_ZPG, SBC_IMM, SBC_ZPG, CMP_IMM, CMP_ZPG, CPX_IMM, CPY_IMM},
        r \in ByteVals, v \in ByteVals, f \in FlagVals }

\* SEC; ADC #v; SEC; SBC #v at the reset address.
RoundTripImm(v) ==
    << W8(Some(ADDR_RESET_VECTOR), SEC), W8(None, ADC_IMM), W8(None, v),
       W8(None, SEC), W8(None, SBC_IMM), W8(None, v) >>

\* The same with v as a zero-page operand.
RoundTripZpg(v) ==
    << W8(Some(AluOperandAddr), v),
       W8(Some(ADDR_RESET_VECTOR), SEC), W8(None, ADC_ZPG), W8(None, AluOperandAddr),
       W8(None, SEC), W8(None, SBC_ZPG), W8(None, AluOperandAddr) >>

RoundTripFixtures ==
    { Fixture("roundtrip", a, 0, 0, INITIAL_STACK_POINTER, 0,
              IF imm THEN RoundTripImm(v) ELSE RoundTripZpg(v)) :
        a \in ByteVals, v \in ByteVals, imm \in BOOLEAN }

\* A jump to the top of memory and an instruction there.
JumpFixtures ==
    { Fixture("jump", 0, 0, 0, INITIAL_STACK_POINTER, 0,
              << W8(Some(t), op), W8(None, 52), W8(None, 18) >> \o Ins3(JMP_ABS, t)) :
        t \in {65533, 65534, 65535},
        op \in {NOP, LDA_IMM, LDA_ZPG, LDA_ABS, TAX, JMP_IND, RTS, BRK} }

\* JSR to a subroutine that is a single RTS, at every interesting stack
\* pointer.
CallTargets == {4660, 43981}
CallFixtures ==
    { Fixture("call", 129, 0, 0, s, 0, <<W8(Some(t), RTS)>> \o Ins3(JSR_ABS, t)) :
        s \in SpVals, t \in CallTargets }

\* BRK with the interrupt vector set to a handler that is a single RTI,
\* for every flag sample, with and without B, at every interesting stack
\* pointer.
InterruptHandler == 43981
InterruptFixtures ==
    { Fixture("interrupt", 129, 0, 0, s, f,
              << W16(Some(VECTOR_IRQ), InterruptHandler),
                 W8(Some(InterruptHandler), RTI),
                 W8(Some(ADDR_RESET_VECTOR), BRK), W8(None, 170), W8(None, NOP) >>) :
        s \in SpVals, f \in FlagVals \cup {B} }

\* PHA; PLA for every sample of AC at every interesting stack pointer.
PushPullFixtures ==
    { Fixture("pushpull", a, 0, 0, s, 0,
              << W8(Some(ADDR_RESET_VECTOR), PHA), W8(None, PLA) >>) :
        a \in ByteVals, s \in SpVals }

\* ADC and SBC in every addressing mode with the D flag set.
DecimalFixtures ==
    { Fixture("decimal", 129, 1, 1, INITIAL_STACK_POINTER, f, Ins3(op, w)) :
        op \in { o \in DefinedOpcodes : from_opcode(o).mnemonic \in {"ADC", "SBC"} },
        w \in {10, 384}, f \in {D, BitOr(D, C)} }

\* NOP and indexed reads whose effective address 0x01FF + 1 crosses a page,
\* with the cycle counter as the reset left it and at the top of its range.
CounterPointer == 16
CounterFixtures ==
    { [ Fixture("counter", 129, 1, 1, INITIAL_STACK_POINTER, 0,
                << W16(Some(CounterPointer), 511), W8(Some(512), 85) >> \o
                (IF from_opcode(op).addr_mode = "IDY" THEN Ins2(op, CounterPointer)
                 ELSE Ins3(op, 511)))
        EXCEPT !.cycles = n ] :
        op \in {NOP, LDA_ABX, LDA_ABY, LDA_IDY, ADC_ABX, AND_IDY, CMP_ABY},
        n \in {CYCLES_AFTER_RESET, U64_MAX - 5, U64_MAX - 1, U64_MAX} }

\* The program and data that give an instruction the operand v when
\* X = Y = 1: zero-page and absolute indexing wrap to address 0 (with a
\* decoy byte past the end of the zero page), the IDX pointer is found
\* at address 0 and the IDY pointer holds 0xFFFF.
OperandProgram(op, v) ==
    LET mode == from_opcode(op).addr_mode
    IN CASE mode = "IMM" -> Ins2(op, v)
         [] mode = "ZPG" -> <<W8(Some(AluOperandAddr), v)>> \o Ins2(op, AluOperandAddr)
         [] mode \in {"ZPX", "ZPY"} ->
                <<W8(Some(256), 90), W8(Some(0), v)>> \o Ins2(op, 255)
         [] mode = "ABS" -> <<W8(Some(640), v)>> \o Ins3(op, 640)
         [] mode \in {"ABX", "ABY"} -> <<W8(Some(0), v)>> \o Ins3(op, 65535)
         [] mode = "IDX" ->
                <<W16(Some(0), 640), W8(Some(640), v)>> \o Ins2(op, 255)
         [] mode = "IDY" ->
                <<W16(Some(AluOperandAddr), 65535), W8(Some(0), v)>>
                    \o Ins2(op, AluOperandAddr)
         [] OTHER -> Ins1(op)

OperandOpcodes ==
    { o \in DefinedOpcodes :
        from_opcode(o).mnemonic \in {"AND", "EOR", "ORA", "BIT", "ASL", "LSR", "ROL",
                                     "ROR", "INC", "DEC", "LDA", "LDX", "LDY",
                                     "STA", "STX", "STY"} }

\* The logical, bit-test, shift, rotate, memory increment, load and store
\* instructions in every addressing mode they have, over the sample
\* operands; AC varies where the instruction reads it.
OperandFixtures ==
    { Fixture("operand",
              CASE from_opcode(op).addr_mode = "ACC" -> v
                [] from_opcode(op).mnemonic \in {"AND", "EOR", "ORA", "BIT", "STA"} -> a
                [] OTHER -> 85,
              1, 1, INITIAL_STACK_POINTER, f, OperandProgram(op, v)) :
        op \in OperandOpcodes, v \in ByteVals, a \in {0, 85, 255},
        f \in {0, C, BitOr(D, BitOr(C, BitOr(Z, BitOr(I, BitOr(V, N)))))} }

\* The register increments, decrements and transfers over the sample bytes.
RegisterFixtures ==
    { Fixture("register", a, r, r, BitXor(r, 255), f, Ins1(op)) :
        op \in {INX, INY, DEX, DEY, TAX, TAY, TXA, TYA, TSX, TXS},
        a \in ByteVals, r \in ByteVals, f \in {0, BitOr(C, BitOr(Z, BitOr(V, N)))} }

\* Two instructions, one after the other, on the accumulator, on the
\* zero-page byte 0x10 or on the byte 0x0280, which holds v.
PairProgram(first, second, v) ==
    LET mode == from_opcode(first).addr_mode
    IN CASE mode = "ZPG" ->
                << W8(Some(AluOperandAddr), v),
                   W8(Some(ADDR_RESET_VECTOR), first), W8(None, AluOperandAddr),
                   W8(None, second), W8(None, AluOperandAddr) >>
         [] mode = "ABS" ->
                << W8(Some(640), v),
                   W8(Some(ADDR_RESET_VECTOR), first), W16(None, 640),
                   W8(None, second), W16(None, 640) >>
         [] OTHER -> << W8(Some(ADDR_RESET_VECTOR), first), W8(None, second) >>

\* ROL; ROR and ROR; ROL on one operand, for every sample byte and carry.
RotateFixtures ==
    { Fixture("rotate", v, 0, 0, INITIAL_STACK_POINTER, f,
              PairProgram(pair[1], pair[2], v)) :
        pair \in { <<ROL_ACC, ROR_ACC>>, <<ROR_ACC, ROL_ACC>>,
                   <<ROL_ZPG, ROR_ZPG>>, <<ROR_ZPG, ROL_ZPG>>,
                   <<ROL_ABS, ROR_ABS>>, <<ROR_ABS, ROL_ABS>> },
        v \in ByteVals, f \in {0, C} }

\* INC; DEC, DEC; INC and DEC; DEC on one memory byte.
IncDecFixtures ==
    { Fixture("incdec", 129, 0, 0, INITIAL_STACK_POINTER, 0,
              PairProgram(pair[1], pair[2], v)) :
        pair \in { <<INC_ZPG, DEC_ZPG>>, <<DEC_ZPG, INC_ZPG>>, <<DEC_ZPG, DEC_ZPG>>,
                   <<INC_ABS, DEC_ABS>>, <<DEC_ABS, INC_ABS>>, <<DEC_ABS, DEC_ABS>> },
        v \in ByteVals }

\* JMP through a pointer in the middle of a page, through one in the last
\* byte of page two, with a decoy in the first byte of that page, and
\* through one in the last byte of memory.
IndirectFixtures ==
    { Fixture("indirect", 129, 1, 2, INITIAL_STACK_POINTER, f,
              << W8(Some(512), 119), W16(Some(p), t) >> \o Ins3(JMP_IND, p)) :
        p \in {640, 767, 65535}, t \in CallTargets,
        f \in {0, BitOr(D, BitOr(C, BitOr(Z, BitOr(I, BitOr(V, N)))))} }

\* The flag instructions from every sample status, with the cycle counter
\* as the reset left it and next to the top of its range.
FlagFixtures ==
    { [ Fixture("flag", 129, 1, 2, INITIAL_STACK_POINTER, f, Ins1(op))
        EXCEPT !.cycles = n ] :
        op \in {CLC, CLD, CLI, CLV, SEC, SED, SEI},
        f \in {0, C, D, I, V, BitOr(D, BitOr(C, BitOr(Z, BitOr(I, BitOr(V, N)))))},
        n \in {CYCLES_AFTER_RESET, U64_MAX - 1} }

\* PHA; JSR $1234; PLA with an RTS at 0x1234, for every sample of AC at
\* every interesting stack pointer.
MixedStackFixtures ==
    { Fixture("mixed", a, 0, 0, s, 0,
              << W8(Some(4660), RTS), W8(Some(ADDR_RESET_VECTOR), PHA),
                 W8(None, JSR_ABS), W16(None, 4660), W8(None, PLA) >>) :
        a \in ByteVals, s \in SpVals }

\* A program that never ends: a jump to itself.
LoopFixtures ==
    { Fixture("loop", 129, 0, 0, INITIAL_STACK_POINTER, 0,
              Ins3(JMP_ABS, ADDR_RESET_VECTOR)) }

Fixtures ==
    SingleFixtures \cup StackFixtures \cup BranchFixtures \cup AluFixtures
        \cup RoundTripFixtures \cup JumpFixtures \cup CallFixtures
        \cup InterruptFixtures \cup PushPullFixtures \cup DecimalFixtures
        \cup CounterFixtures \cup OperandFixtures \cup RegisterFixtures
        \cup RotateFixtures \cup IncDecFixtures \cup IndirectFixtures \cup FlagFixtures
        \cup MixedStackFixtures \cup LoopFixtures

NoFixture(name) == Fixture(name, 0, 0, 0, 0, 0, <<>>)

(***************************************************************************)
(* The state machine.                                                      *)
(*   call   the current or last call of exec: its max_cycles, cpu.cycles   *)
(*          when it was made, the instructions it executed so far and the  *)
(*          cycles they consumed (the sum of cycles_consumed), the number  *)
(*          of calls and of instructions since the fixture                 *)
(*   prev   what the last reset, fixture or loop iteration did: the cpu    *)
(*          and memory before it and the stack addresses it accessed       *)
(***************************************************************************)
NoCall ==
    [max_cycles |-> 0, cycles_before |-> 0, executed |-> 0, consumed |-> 0,
     count |-> 0, total |-> 0]

Init ==
    /\ cpu = Cpu_create
    /\ mem = Memory_create
    /\ overflow_checks \in BOOLEAN
    /\ panicked = "none"
    /\ cycles_to_execute = 0
    /\ call = NoCall
    /\ prev = [op |-> "create", cpu |-> Cpu_create, mem |-> Memory_create,
               stack |-> {}, dirty |-> FALSE]
    /\ fixture = NoFixture("created")

\* cpu.reset(&mut mem), between calls of exec.
Reset ==
    /\ panicked = "none"
    /\ cycles_to_execute = 0
    /\ LET r == Cpu_reset(cpu, mem)
       IN /\ cpu' = r.cpu
          /\ mem' = r.mem
          /\ prev' = [op |-> "reset", cpu |-> r.cpu, mem |-> r.mem, stack |-> {},
                      dirty |-> (cpu # Cpu_create \/ mem # Memory_create)
                                /\ (cpu # r.cpu \/ mem # r.mem)]
    /\ call' = NoCall
    /\ fixture' = NoFixture("reset")
    /\ UNCHANGED <<overflow_checks, panicked, cycles_to_execute>>

\* The fixture, right after a reset: registers and flags are assigned and
\* the program and its data are written.
Load ==
    /\ panicked = "none"
    /\ fixture.name = "reset"
    /\ call.count = 0
    /\ \E f \in Fixtures :
          /\ ~writes_panic(mem, f.writes)
          /\ cpu' = [cpu EXCEPT !.ac = f.ac, !.x = f.x, !.y = f.y, !.sp = f.sp,
                                !.sr = insert(cpu.sr, f.flags), !.cycles = f.cycles]
          /\ mem' = apply_writes(mem, f.writes)
          /\ fixture' = f
    /\ prev' = [op |-> "load", cpu |-> cpu, mem |-> mem, stack |-> {}, dirty |-> FALSE]
    /\ UNCHANGED <<overflow_checks, panicked, cycles_to_execute, call>>

\* A call of exec that costs a cycle of its own.
Exec_charging_call(max_cycles) ==
    /\ panicked = "none"
    /\ cycles_to_execute = 0
    /\ fixture.name \notin {"created", "writes"}
    /\ call.total < MaxInstr
    /\ call.count = 0 \/ (max_cycles = 1 /\ call.max_cycles = 1)
    /\ cycles_to_execute' = max_cycles
    /\ cpu' = [cpu EXCEPT !.cycles = saturating_add(@, 1)]
    /\ call' = [max_cycles |-> max_cycles, cycles_before |-> cpu.cycles,
                executed |-> 0, consumed |-> 0, count |-> call.count + 1,
                total |-> call.total]
    /\ UNCHANGED <<mem, overflow_checks, panicked, prev, fixture>>

\* cpu.exec(&mut mem, max_cycles) is called: the budget is set.  After a
\* call with max_cycles = 1 come further single steps (the loops of lib.rs).
Exec(max_cycles) ==
    /\ panicked = "none"
    /\ cycles_to_execute = 0
    /\ fixture.name \notin {"created", "writes"}
    /\ call.total < MaxInstr
    /\ call.count = 0 \/ (max_cycles = 1 /\ call.max_cycles = 1)
    /\ cycles_to_execute' = max_cycles
    /\ call' = [max_cycles |-> max_cycles, cycles_before |-> cpu.cycles,
                executed |-> 0, consumed |-> 0, count |-> call.count + 1,
                total |-> call.total]
    /\ UNCHANGED <<cpu, mem, overflow_checks, panicked, prev, fixture>>

\* One iteration of the loop of exec: an instruction is executed or the
\* program panics.
ExecLoop ==
    /\ panicked = "none"
    /\ cycles_to_execute > 0
    /\ LET iterated(r) ==
               /\ cpu' = r.cpu
               /\ mem' = r.mem
               /\ panicked' = r.panic
               /\ cycles_to_execute' =
                     IF r.panic = "none"
                     THEN saturating_sub(cycles_to_execute, r.consumed)
                     ELSE cycles_to_execute
               /\ call' = IF r.panic = "none"
                          THEN [call EXCEPT !.executed = @ + 1, !.total = @ + 1,
                                            !.consumed = @ + r.consumed]
                          ELSE call
               /\ prev' = [op |-> "step", cpu |-> cpu, mem |-> mem,
                           stack |-> r.stack, dirty |-> FALSE]
       IN iterated(exec_iteration(cpu, mem))
    /\ UNCHANGED <<overflow_checks, fixture>>

\* The writes a caller makes to the memory directly: a byte, a signed byte
\* or a word, at an address or without one.
WriteSamples ==
    { [kind |-> k, addr |-> a,
       value |-> CASE k = "u8" -> 171 [] k = "i8" -> 0 - 2 [] OTHER -> 43981] :
        k \in {"u8", "i8", "u16"}, a \in {None, Some(16), Some(65535)} }

\* mem.write_u8 / write_i8 / write_u16 called on a memory that was created
\* or reset and, since then, only written; fixture.writes keeps the calls,
\* under the name "writes" once the machine has been reset.
Write(w) ==
    /\ panicked = "none"
    /\ fixture.name \in {"created", "reset", "writes"}
    /\ call.count = 0
    /\ Len(fixture.writes) < MaxWrites
    /\ IF write_panics(mem, w.addr)
       THEN /\ panicked' = "write"
            /\ mem' = mem
       ELSE /\ panicked' = "none"
            /\ mem' = CASE w.kind = "u8" -> write_u8(mem, w.addr, w.value)
                        [] w.kind = "i8" -> write_i8(mem, w.addr, w.value)
                        [] w.kind = "u16" -> write_u16(mem, w.addr, w.value)
    /\ fixture' = [NoFixture(IF fixture.name = "created" THEN "created" ELSE "writes")
                      EXCEPT !.writes = Append(fixture.writes, w)]
    /\ prev' = [op |-> "write", cpu |-> cpu, mem |-> mem, stack |-> {}, dirty |-> FALSE]
    /\ UNCHANGED <<cpu, overflow_checks, cycles_to_execute, call>>

Next ==
    \/ Reset
    \/ Load
    \/ \E w \in WriteSamples : Write(w)
    \/ \E max_cycles \in 0..MaxBudget : Exec(max_cycles)
    \/ ExecLoop

Spec == Init /\ [][Next]_vars


(***************************************************************************)
(* Properties.  They speak of the last iteration of exec's loop through    *)
(* prev: the cpu and memory it started from and, by them, the instruction  *)
(* it decoded.                                                             *)
(***************************************************************************)
\* The last iteration decoded a defined opcode (whether or not it then ran
\* to its end).
Decoded == prev.op = "step" /\ read_u8(prev.mem, prev.cpu.pc) \in DefinedOpcodes

\* The instruction the last iteration decoded.
last_ins == from_opcode(read_u8(prev.mem, prev.cpu.pc))

\* The last iteration executed its instruction to the end.
Stepped == Decoded /\ panicked = "none"

\* The byte the last instruction took as its operand.
last_operand ==
    read_operand([prev.cpu EXCEPT !.pc = cpu.pc], prev.mem, last_ins,
                 wrapping_add_u16(prev.cpu.pc, 1))

\* C1: after a step that executes an instruction other than a taken branch,
\* JMP, JSR, RTS, BRK or RTI, PC is the old PC plus the byte length of the
\* instruction: 1 for IMP and ACC, 2 for IMM, ZPG, ZPX, ZPY, REL, IDX and
\* IDY, 3 for ABS, ABX, ABY and IND.
C1_PcAdvancesByLength ==
    Stepped =>
        LET ins == last_ins
            length == CASE ins.addr_mode \in {"IMP", "ACC"} -> 1
                        [] ins.addr_mode \in {"IMM", "ZPG", "ZPX", "ZPY", "REL",
                                              "IDX", "IDY"} -> 2
                        [] ins.addr_mode \in {"ABS", "ABX", "ABY", "IND"} -> 3
            control == \/ ins.mnemonic \in {"JMP", "JSR", "RTS", "BRK", "RTI"}
                       \/ /\ ins.addr_mode = "REL"
                          /\ branch_taken(prev.cpu.sr, ins.mnemonic)
        IN ~control => cpu.pc = (prev.cpu.pc + length) % 65536

\* An immediate instruction ran and PC moved by one byte only: it points at
\* the operand.
C1_ImmediateLeavesPcAtOperand ==
    /\ Stepped
    /\ last_ins.mnemonic = "LDA"
    /\ last_ins.addr_mode = "IMM"
    /\ cpu.pc = prev.cpu.pc + 1

\* C2: in every state reached from a reset, whatever instructions were
\* executed since, the reserved bit (bit 5) of SR is set.
C2_ReservedAlwaysSet ==
    fixture.name # "created" => contains(cpu.sr, RESERVED)

\* PLP or RTI pulled a byte whose bit 5 is clear, and the bit is still set.
C2_PulledByteWithoutReserved ==
    /\ Stepped
    /\ last_ins.mnemonic \in {"PLP", "RTI"}
    /\ ~contains(read_u8(prev.mem, addr_stack(wrapping_add_u8(prev.cpu.sp, 1))), RESERVED)
    /\ contains(cpu.sr, RESERVED)
    /\ cpu.sr # prev.cpu.sr

\* C3: every memory byte a stack operation of an instruction reads or
\* writes lies in page 1, 0x0100..0x01FF, for every SP.
C3_StackStaysInPageOne ==
    prev.op = "step" => prev.stack \subseteq (STACK_BASE .. STACK_BASE + 255)

\* A 16-bit pop at SP = 0xFD reads 0x01FF and 0x0200.
C3_PopReadsBeyondPageOne ==
    /\ Stepped
    /\ last_ins.mnemonic = "RTS"
    /\ prev.cpu.sp = INITIAL_STACK_POINTER
    /\ prev.stack = {STACK_BASE + 255, STACK_BASE + 256}

\* C4: a run stops only when the budget is exhausted or an unknown opcode
\* is decoded: an iteration that finds a defined opcode at PC, other than
\* ADC or SBC in decimal mode, completes without a panic.
C4_DefinedOpcodesComplete ==
    panicked # "none" =>
        \/ panicked = "decode"
        \/ /\ panicked = "bcd"
           /\ last_ins.mnemonic \in {"ADC", "SBC"}

\* A branch was decoded and the iteration panicked on its addressing mode.
C4_BranchPanics ==
    /\ Decoded
    /\ last_ins.addr_mode = "REL"
    /\ panicked = "addr_mode"
    /\ cpu = prev.cpu

\* C5: exec(0) executes nothing and changes nothing; exec(N), N > 0, runs
\* whole instructions and returns at the first instruction boundary where
\* the cycles it consumed are at least N, so exec(1) executes exactly one
\* instruction; the cycle counter has then advanced by at least N and at
\* most N + 6.
C5_BudgetCheckedBetweenInstructions ==
    [][ LET max_cycles == call'.max_cycles
            consumed == cpu.cycles - call.cycles_before
            consumed_after == cpu'.cycles - call'.cycles_before
            called == call'.count = call.count + 1
            iterated == cycles_to_execute > 0 /\ panicked' = "none"
        IN /\ called =>
                /\ cpu' = cpu /\ mem' = mem /\ call'.executed = 0
                /\ (max_cycles = 0) <=> (cycles_to_execute' = 0)
           /\ iterated =>
                /\ call'.executed = call.executed + 1
                /\ consumed < max_cycles
                /\ (cycles_to_execute' = 0) <=> (consumed_after >= max_cycles)
                /\ cycles_to_execute' = 0 =>
                      /\ consumed_after <= max_cycles + 6
                      /\ max_cycles = 1 => call'.executed = 1
           /\ call'.max_cycles = 0 => call'.executed = 0
      ]_vars

\* C5, amended: exec(0) executes nothing and changes nothing; exec(N),
\* N > 0, runs whole instructions and returns at the first instruction
\* boundary where the cycles consumed by the call are at least N, at most
\* N + 6, so exec(1) executes exactly one instruction; the cycle counter
\* has then advanced by the cycles consumed, unless it reached 2^64 - 1,
\* where it saturates and has advanced by less.
C5_BudgetWithSaturatingCounter ==
    [][ LET max_cycles == call'.max_cycles
            advance == cpu'.cycles - call'.cycles_before
            called == call'.count = call.count + 1
            iterated == cycles_to_execute > 0 /\ panicked' = "none"
        IN /\ called =>
                /\ cpu' = cpu /\ mem' = mem /\ call'.executed = 0
                /\ (max_cycles = 0) <=> (cycles_to_execute' = 0)
           /\ iterated =>
                /\ call'.executed = call.executed + 1
                /\ call.consumed < max_cycles
                /\ (cycles_to_execute' = 0) <=> (call'.consumed >= max_cycles)
                /\ cpu'.cycles < U64_MAX => advance = call'.consumed
                /\ cpu'.cycles = U64_MAX => advance <= call'.consumed
                /\ cycles_to_execute' = 0 =>
                      /\ call'.consumed <= max_cycles + 6
                      /\ max_cycles = 1 => call'.executed = 1
           /\ call'.max_cycles = 0 => call'.executed = 0
      ]_vars

\* exec(3) returned after two instructions.
C5_TwoInstructionsForThreeCycles ==
    /\ call.max_cycles = 3
    /\ call.executed = 2
    /\ cycles_to_execute = 0
    /\ panicked = "none"
    /\ cpu.cycles - call.cycles_before >= 3

\* C6: right after a reset AC = X = Y = 0, SR holds the reserved bit only,
\* SP = 0xFD, cycles = 7, PC = 0xE000, memory is zero but for 0x00 at 0xFFFC
\* and 0xE0 at 0xFFFD, and the sequential-write cursor is cleared.
C6_ResetState ==
    (prev.op = "reset" /\ call.count = 0) =>
        /\ cpu = [pc |-> 57344, ac |-> 0, x |-> 0, y |-> 0, sr |-> 32, sp |-> 253,
                  cycles |-> 7]
        /\ \A a \in 0 .. 65535 : read_u8(mem, a) = (IF a = 65533 THEN 224 ELSE 0)
        /\ mem.current_write_addr = None

\* A reset of a cpu and a memory that a program had changed.
C6_ResetAfterRun ==
    /\ prev.op = "reset"
    /\ prev.dirty
    /\ call.count = 0
    /\ cpu.pc = ADDR_RESET_VECTOR
    /\ cpu.sp = INITIAL_STACK_POINTER

\* C7: ADC with D clear leaves AC = sum mod 256 for sum = AC + operand + C,
\* C = (sum > 255), V = ((~(AC ^ operand) & (AC ^ result)) & 0x80) # 0,
\* Z = (result = 0) and N = bit 7 of the result.
C7_AdcBinary ==
    (Decoded /\ last_ins.mnemonic = "ADC" /\ ~contains(prev.cpu.sr, D)) =>
        LET a == prev.cpu.ac
            operand == last_operand
            sum == a + operand + (IF contains(prev.cpu.sr, C) THEN 1 ELSE 0)
            result == sum % 256
        IN /\ panicked = "none"
           /\ cpu.ac = result
           /\ contains(cpu.sr, C) <=> (sum > 255)
           /\ contains(cpu.sr, V) <=>
                (BitAnd(BitAnd(BitNot(BitXor(a, operand)), BitXor(a, result)), 128) # 0)
           /\ contains(cpu.sr, Z) <=> (result = 0)
           /\ contains(cpu.sr, N) <=> (result >= 128)

\* 0x7F + 0x01 with carry clear gave 0x80 with N and V set and C clear.
C7_OverflowBoundary ==
    /\ Stepped
    /\ last_ins.mnemonic = "ADC"
    /\ prev.cpu.ac = 127
    /\ last_operand = 1
    /\ ~contains(prev.cpu.sr, C)
    /\ cpu.ac = 128
    /\ contains(cpu.sr, N) /\ contains(cpu.sr, V) /\ ~contains(cpu.sr, C)

\* C8: SBC with D clear, for every AC, operand and carry, leaves
\* AC = diff mod 256 for diff = AC - operand - (1 - C), C = (diff >= 0),
\* V = (((AC ^ operand) & (AC ^ result)) & 0x80) # 0, Z = (result = 0) and
\* N = bit 7 of the result.
C8_SbcBinary ==
    (Decoded /\ last_ins.mnemonic = "SBC" /\ ~contains(prev.cpu.sr, D)) =>
        LET a == prev.cpu.ac
            operand == last_operand
            diff == a - operand - (IF contains(prev.cpu.sr, C) THEN 0 ELSE 1)
            result == (diff + 256) % 256
        IN /\ panicked = "none"
           /\ cpu.ac = result
           /\ contains(cpu.sr, C) <=> (diff >= 0)
           /\ contains(cpu.sr, V) <=>
                (BitAnd(BitAnd(BitXor(a, operand), BitXor(a, result)), 128) # 0)
           /\ contains(cpu.sr, Z) <=> (result = 0)
           /\ contains(cpu.sr, N) <=> (result >= 128)

\* SBC with AC smaller than the operand panicked on the subtraction.
C8_BorrowPanics ==
    /\ Decoded
    /\ last_ins.mnemonic = "SBC"
    /\ overflow_checks
    /\ panicked = "overflow"
    /\ prev.cpu.ac = 0
    /\ read_u8(prev.mem, prev.cpu.pc + 1) = 1

\* C9: with D clear, the four instructions SEC; ADC #v; SEC; SBC #v end with
\* AC as it was before them and with C set.
C9_AdcSbcRoundTrip ==
    ( /\ fixture.name = "roundtrip"
      /\ fixture.writes = RoundTripImm(fixture.writes[3].value)
      /\ call.total = 4
      /\ cycles_to_execute = 0
      /\ panicked = "none" ) =>
        /\ cpu.ac = fixture.ac
        /\ contains(cpu.sr, C)

\* After SEC and ADC #0x0A the operand byte 0x0A ran as ASL A.
C9_OperandRunsAsInstruction ==
    /\ fixture.name = "roundtrip"
    /\ fixture.writes = RoundTripImm(10)
    /\ Stepped
    /\ prev.cpu.pc = ADDR_RESET_VECTOR + 2
    /\ last_ins.mnemonic = "ASL"
    /\ call.total = 3

\* C10: CMP, CPX and CPY, for every register, operand and flags on entry,
\* leave Z = (reg = operand), C = (reg >= operand), N = bit 7 of
\* (reg - operand) mod 256, and change no register and no other flag.
C10_CompareSetsZCN ==
    (Decoded /\ last_ins.mnemonic \in {"CMP", "CPX", "CPY"}) =>
        LET reg == CASE last_ins.mnemonic = "CMP" -> prev.cpu.ac
                     [] last_ins.mnemonic = "CPX" -> prev.cpu.x
                     [] last_ins.mnemonic = "CPY" -> prev.cpu.y
            operand == last_operand
            others == 255 - (Z + C + N)
        IN /\ panicked = "none"
           /\ contains(cpu.sr, Z) <=> (reg = operand)
           /\ contains(cpu.sr, C) <=> (reg >= operand)
           /\ contains(cpu.sr, N) <=> (((reg - operand + 256) % 256) >= 128)
           /\ cpu.ac = prev.cpu.ac /\ cpu.x = prev.cpu.x /\ cpu.y = prev.cpu.y
           /\ cpu.sp = prev.cpu.sp
           /\ BitAnd(cpu.sr, others) = BitAnd(prev.cpu.sr, others)

\* A compare with D set on entry panicked.
C10_CompareInDecimalModePanics ==
    /\ Decoded
    /\ last_ins.mnemonic = "CMP"
    /\ contains(prev.cpu.sr, D)
    /\ panicked = "bcd"


\* C11: a branch BCC/BCS/BEQ/BNE/BPL/BMI/BVC/BVS at address P with offset r
\* in -128..127: when its condition (!C, C, Z, !Z, !N, N, !V, V) is false,
\* PC becomes P + 2 and the step costs 2 cycles; when it is true, PC becomes
\* (P + 2 + r) mod 2^16 and the step costs 3 cycles if the target is in the
\* page of P + 2 and 4 cycles if it is not.
C11_BranchPcAndCycles ==
    (Decoded /\ last_ins.addr_mode = "REL") =>
        LET P == prev.cpu.pc
            s == prev.cpu.sr
            r == as_i8(read_u8(prev.mem, (P + 1) % 65536))
            condition == CASE last_ins.mnemonic = "BCC" -> ~contains(s, C)
                           [] last_ins.mnemonic = "BCS" -> contains(s, C)
                           [] last_ins.mnemonic = "BEQ" -> contains(s, Z)
                           [] last_ins.mnemonic = "BNE" -> ~contains(s, Z)
                           [] last_ins.mnemonic = "BPL" -> ~contains(s, N)
                           [] last_ins.mnemonic = "BMI" -> contains(s, N)
                           [] last_ins.mnemonic = "BVC" -> ~contains(s, V)
                           [] last_ins.mnemonic = "BVS" -> contains(s, V)
            target == (P + 2 + r + 65536) % 65536
            cost == cpu.cycles - prev.cpu.cycles
        IN /\ panicked = "none"
           /\ ~condition => (cpu.pc = (P + 2) % 65536 /\ cost = 2)
           /\ condition =>
                /\ cpu.pc = target
                /\ cost = IF target \div 256 = ((P + 2) % 65536) \div 256 THEN 3 ELSE 4

\* BEQ with Z clear, a branch not taken, panicked before PC moved.
C11_UntakenBranchPanics ==
    /\ Decoded
    /\ fixture.name = "branch"
    /\ last_ins.mnemonic = "BEQ"
    /\ ~contains(prev.cpu.sr, Z)
    /\ panicked = "addr_mode"
    /\ cpu.pc = prev.cpu.pc
    /\ cpu.cycles = prev.cpu.cycles

\* C12: JSR T at address S sets PC = T, decreases SP by 2 and leaves the
\* 16-bit value S + 2 on the stack (a 16-bit pop yields it); RTS executed
\* next sets PC = S + 3 and restores SP to its value before the JSR.
C12_JsrRtsPairing ==
    /\ (Decoded /\ last_ins.mnemonic = "JSR" /\ fixture.name \in {"call", "stack"}) =>
          LET S == prev.cpu.pc
              T == read_u16(prev.mem, S + 1)
          IN /\ panicked = "none"
             /\ cpu.pc = T
             /\ cpu.sp = (prev.cpu.sp + 254) % 256
             /\ stack_pop_u16(cpu, mem).value = S + 2
    /\ (Decoded /\ last_ins.mnemonic = "RTS" /\ fixture.name = "call"
            /\ call.total <= 2) =>
          /\ panicked = "none"
          /\ prev.cpu.pc \in CallTargets
          /\ cpu.pc = ADDR_RESET_VECTOR + 3
          /\ cpu.sp = fixture.sp

\* JSR at 0xE000 with SP = 0x00 and RTS at 0xABCD were executed: PC is
\* 0xE003 and SP is 0x00 again.
C12_ReturnedAfterCall ==
    /\ Stepped
    /\ fixture.name = "call"
    /\ fixture.sp = 0
    /\ last_ins.mnemonic = "RTS"
    /\ prev.cpu.pc = 43981
    /\ prev.cpu.sp = 254
    /\ call.total = 2
    /\ cpu.pc = ADDR_RESET_VECTOR + 3
    /\ cpu.sp = 0

\* C13: JSR and BRK push the 16-bit return address high byte first: with
\* SP = s before the push the high byte is at 0x0100|s and the low byte at
\* 0x0100|((s - 1) mod 256).
C13_ReturnAddressHighByteFirst ==
    (Stepped /\ last_ins.mnemonic \in {"JSR", "BRK"}) =>
        LET s == prev.cpu.sp
            ret == (prev.cpu.pc + 2) % 65536
        IN /\ read_u8(mem, BitOr(256, s)) = ret \div 256
           /\ read_u8(mem, BitOr(256, (s + 255) % 256)) = ret % 256

\* JSR at 0xE000 with SP = 0xFD left the low byte 0x02 at 0x01FD and the
\* high byte 0xE0 at 0x01FE, above the stack pointer it started from, and
\* did not write 0x01FC.
C13_LowByteAtStackPointer ==
    /\ Stepped
    /\ last_ins.mnemonic = "JSR"
    /\ prev.cpu.pc = ADDR_RESET_VECTOR
    /\ prev.cpu.sp = 253
    /\ read_u8(mem, 509) = 2
    /\ read_u8(mem, 510) = 224
    /\ read_u8(mem, 508) = read_u8(prev.mem, 508)
    /\ read_u8(prev.mem, 510) # 224
    /\ cpu.sp = 251

\* C14: BRK at address P pushes the return address P + 2 and then a status
\* byte that is SR with the B and reserved bits set, decreases SP by 3, sets
\* I in SR and changes no other bit of it (B among them), and sets PC to
\* the little-endian 16-bit value at 0xFFFE/0xFFFF.
C14_BrkPushesAndVectors ==
    (Stepped /\ last_ins.mnemonic = "BRK") =>
        LET P == prev.cpu.pc
            status == stack_pop_u8(cpu, mem)
            ret == stack_pop_u16(status.cpu, mem)
        IN /\ status.value = BitOr(prev.cpu.sr, BitOr(B, RESERVED))
           /\ ret.value = (P + 2) % 65536
           /\ ret.cpu.sp = prev.cpu.sp
           /\ cpu.sp = (prev.cpu.sp + 253) % 256
           /\ cpu.sr = BitOr(prev.cpu.sr, I)
           /\ cpu.pc = read_u8(mem, 65534) + 256 * read_u8(mem, 65535)
           /\ cpu.ac = prev.cpu.ac /\ cpu.x = prev.cpu.x /\ cpu.y = prev.cpu.y

\* BRK at 0xE000 with C set and B and I clear went to the handler at
\* 0xABCD: I is set, B is still clear, and the byte pushed has B set.
C14_BrkEntersHandler ==
    /\ Stepped
    /\ last_ins.mnemonic = "BRK"
    /\ fixture.name = "interrupt"
    /\ prev.cpu.sr = BitOr(RESERVED, C)
    /\ prev.cpu.sp = 0
    /\ cpu.pc = InterruptHandler
    /\ cpu.sr = BitOr(RESERVED, BitOr(C, I))
    /\ cpu.sp = 253
    /\ read_u8(mem, addr_stack(254)) = BitOr(RESERVED, BitOr(C, B))

\* C15: RTI pops the status byte and sets SR to it, except that the B and
\* reserved bits keep the values they have in the cpu, then pops a 16-bit
\* address and sets PC to exactly that address; so BRK at address P
\* followed by RTI in the handler leaves PC = P + 2, SP as it was before
\* the BRK and SR as it was before the BRK.
C15_RtiRestores ==
    /\ (Decoded /\ last_ins.mnemonic = "RTI") =>
          LET status == stack_pop_u8(prev.cpu, prev.mem)
              ret == stack_pop_u16(status.cpu, prev.mem)
              kept == BitOr(B, RESERVED)
          IN /\ panicked = "none"
             /\ cpu.sr = BitOr(BitAnd(status.value, 255 - kept),
                               BitAnd(prev.cpu.sr, kept))
             /\ cpu.pc = ret.value
             /\ cpu.sp = (prev.cpu.sp + 3) % 256
             /\ mem = prev.mem
    /\ (Decoded /\ last_ins.mnemonic = "RTI" /\ fixture.name = "interrupt"
            /\ call.total <= 2) =>
          /\ prev.cpu.pc = InterruptHandler
          /\ cpu.pc = ADDR_RESET_VECTOR + 2
          /\ cpu.sp = fixture.sp
          /\ cpu.sr = BitOr(RESERVED, fixture.flags)

\* BRK at 0xE000 with SP = 0xFF and no flag set, then RTI at 0xABCD: PC is
\* 0xE002, SP is 0xFF and I, which BRK had set, is clear again.
C15_ReturnedFromInterrupt ==
    /\ Stepped
    /\ last_ins.mnemonic = "RTI"
    /\ fixture.name = "interrupt"
    /\ fixture.sp = 255
    /\ fixture.flags = 0
    /\ call.total = 2
    /\ contains(prev.cpu.sr, I)
    /\ cpu.pc = ADDR_RESET_VECTOR + 2
    /\ cpu.sp = 255
    /\ cpu.sr = RESERVED

\* C16: PHP pushes the byte SR | reserved | B and leaves SR unchanged; PLP
\* sets C, Z, I, D, V and N from the byte it pops, and the reserved and B
\* bits of SR keep the values they have in the cpu.
C16_PhpPlpStatus ==
    /\ (Decoded /\ last_ins.mnemonic = "PHP") =>
          /\ panicked = "none"
          /\ read_u8(mem, BitOr(256, prev.cpu.sp)) = BitOr(prev.cpu.sr, BitOr(RESERVED, B))
          /\ cpu.sr = prev.cpu.sr
          /\ cpu.ac = prev.cpu.ac
    /\ (Decoded /\ last_ins.mnemonic = "PLP") =>
          LET value == read_u8(prev.mem, BitOr(256, (prev.cpu.sp + 1) % 256))
              kept == BitOr(B, RESERVED)
          IN /\ panicked = "none"
             /\ BitAnd(cpu.sr, 255 - kept) = BitAnd(value, 255 - kept)
             /\ BitAnd(cpu.sr, kept) = BitAnd(prev.cpu.sr, kept)
             /\ cpu.ac = prev.cpu.ac
             /\ mem = prev.mem

\* PHP with C and N set and B clear pushed a byte with B set, and B is
\* still clear in SR.
C16_PushedStatusHasB ==
    /\ Stepped
    /\ last_ins.mnemonic = "PHP"
    /\ prev.cpu.sr = BitOr(RESERVED, BitOr(C, N))
    /\ read_u8(mem, addr_stack(prev.cpu.sp)) = BitOr(BitOr(RESERVED, B), BitOr(C, N))
    /\ cpu.sr = BitOr(RESERVED, BitOr(C, N))
    /\ cpu.sp = (prev.cpu.sp + 255) % 256

\* C17: PHA stores AC at 0x0100|SP and then decrements SP by 1, changing
\* neither AC nor a flag; PLA increments SP by 1, loads AC from 0x0100|SP
\* and sets Z and N from the value loaded; PHA followed at once by PLA
\* leaves AC and SP as they were.
C17_PhaPlaPair ==
    /\ (Decoded /\ last_ins.mnemonic = "PHA") =>
          /\ panicked = "none"
          /\ read_u8(mem, BitOr(256, prev.cpu.sp)) = prev.cpu.ac
          /\ cpu.sp = (prev.cpu.sp + 255) % 256
          /\ cpu.ac = prev.cpu.ac
          /\ cpu.sr = prev.cpu.sr
    /\ (Decoded /\ last_ins.mnemonic = "PLA") =>
          LET others == 255 - (Z + N)
          IN /\ panicked = "none"
             /\ cpu.sp = (prev.cpu.sp + 1) % 256
             /\ cpu.ac = read_u8(prev.mem, BitOr(256, cpu.sp))
             /\ contains(cpu.sr, Z) <=> (cpu.ac = 0)
             /\ contains(cpu.sr, N) <=> (cpu.ac >= 128)
             /\ BitAnd(cpu.sr, others) = BitAnd(prev.cpu.sr, others)
             /\ mem = prev.mem
    /\ (Decoded /\ last_ins.mnemonic = "PLA" /\ fixture.name = "pushpull"
            /\ call.total <= 2) =>
          /\ prev.cpu.pc = ADDR_RESET_VECTOR + 1
          /\ cpu.ac = fixture.ac
          /\ cpu.sp = fixture.sp

\* PHA with AC = 0x80 and SP = 0x00, then PLA: SP went to 0xFF and is 0x00
\* again, AC is 0x80 and N is set.
C17_PulledWhatWasPushed ==
    /\ Stepped
    /\ last_ins.mnemonic = "PLA"
    /\ fixture.name = "pushpull"
    /\ fixture.ac = 128
    /\ fixture.sp = 0
    /\ call.total = 2
    /\ prev.cpu.sp = 255
    /\ cpu.sp = 0
    /\ cpu.ac = 128
    /\ contains(cpu.sr, N) /\ ~contains(cpu.sr, Z)

\* C18: the stack pointer wraps modulo 256 and its arithmetic never fails:
\* an 8-bit push changes SP by -1 (0x00 to 0xFF), an 8-bit pop by +1 (0xFF
\* to 0x00), and the 16-bit pushes and pops by exactly 2, modulo 256; an
\* instruction that reached its stack operation panics only in RTS, on the
\* increment of the address popped.
C18_StackPointerWraps ==
    (Decoded /\ prev.stack # {}) =>
        LET delta == CASE last_ins.mnemonic \in {"PHA", "PHP"} -> 255
                       [] last_ins.mnemonic \in {"PLA", "PLP"} -> 1
                       [] last_ins.mnemonic = "JSR" -> 254
                       [] last_ins.mnemonic = "RTS" -> 2
                       [] last_ins.mnemonic = "BRK" -> 253
                       [] last_ins.mnemonic = "RTI" -> 3
        IN /\ cpu.sp = (prev.cpu.sp + delta) % 256
           /\ cpu.sp \in 0 .. 255
           /\ panicked # "none" =>
                /\ last_ins.mnemonic = "RTS"
                /\ panicked = "overflow"
                /\ stack_pop_u16(prev.cpu, prev.mem).value = 65535

\* JSR with SP = 0x01 left SP = 0xFF.
C18_PushWrappedBelowZero ==
    /\ Stepped
    /\ last_ins.mnemonic = "JSR"
    /\ prev.cpu.sp = 1
    /\ prev.stack # {}
    /\ cpu.sp = 255

\* C19: when the byte at PC is not a defined opcode the step fails with the
\* decode error and changes nothing: PC, AC, X, Y, SR, SP, the cycle
\* counter and every memory byte are as the last executed instruction left
\* them.
C19_UndefinedOpcodeFailsToDecode ==
    (prev.op = "step" /\ read_u8(prev.mem, prev.cpu.pc) \notin DefinedOpcodes) =>
        /\ panicked = "decode"
        /\ cpu = prev.cpu
        /\ mem = prev.mem

\* The byte 0x12 at PC = 0xFFFF, no defined opcode, in a build with
\* overflow checks: the step panicked on self.pc + 1, before the decoding.
C19_OverflowBeforeDecode ==
    /\ prev.op = "step"
    /\ prev.cpu.pc = 65535
    /\ read_u8(prev.mem, 65535) = 18
    /\ 18 \notin DefinedOpcodes
    /\ overflow_checks
    /\ panicked = "overflow"
    /\ cpu = prev.cpu
    /\ mem = prev.mem

\* C20: ADC or SBC, in any addressing mode, executed with the D flag set
\* fails and stops the run instead of doing binary arithmetic, and the
\* failing step leaves AC, X, Y, SP, SR, the cycle counter and all of
\* memory unchanged.
C20_DecimalModeFails ==
    (Decoded /\ last_ins.mnemonic \in {"ADC", "SBC"} /\ contains(prev.cpu.sr, D)) =>
        /\ panicked = "bcd"
        /\ cpu.ac = prev.cpu.ac /\ cpu.x = prev.cpu.x /\ cpu.y = prev.cpu.y
        /\ cpu.sp = prev.cpu.sp
        /\ cpu.sr = prev.cpu.sr
        /\ cpu.cycles = prev.cpu.cycles
        /\ mem = prev.mem

\* SBC abs,X with D and C set failed and AC is what it was.
C20_DecimalSbcStopped ==
    /\ Decoded
    /\ last_ins.mnemonic = "SBC"
    /\ last_ins.addr_mode = "ABX"
    /\ prev.cpu.sr = BitOr(RESERVED, BitOr(D, C))
    /\ panicked = "bcd"
    /\ cpu.ac = 129
    /\ cpu.sr = prev.cpu.sr

C22_ResolverAddresses ==
    \A P \in {(cpu.pc + 1) % 65536, CounterPointer} :
        LET b == read_u8(mem, P)
            resolve(mode) == fetch_addr(cpu, mem, [addr_mode |-> mode], P)
            word(a) == read_u16(mem, a)
            indexed(w, r) == IF w < 0 THEN w ELSE (w + r) % 65536
        IN /\ resolve("ZPG") = b
           /\ resolve("ZPX") = (b + cpu.x) % 256
           /\ resolve("ZPY") = (b + cpu.y) % 256
           /\ resolve("ZPX") < 256 /\ resolve("ZPY") < 256
           /\ resolve("ABS") = word(P)
           /\ resolve("ABX") = indexed(word(P), cpu.x)
           /\ resolve("ABY") = indexed(word(P), cpu.y)
           /\ resolve("IDX") = word((b + cpu.x) % 256)
           /\ resolve("IDY") = indexed(word(b), cpu.y)
           /\ \A a \in {P, b, (b + cpu.x) % 256} :
                 a < 65535 => word(a) = read_u8(mem, a) + 256 * read_u8(mem, a + 1)

\* ORA $FF,X with X = 1 took its operand from address 0x0000, not from
\* 0x0100.
C22_IndexWrappedToZero ==
    /\ Stepped
    /\ fixture.name = "operand"
    /\ last_ins.mnemonic = "ORA"
    /\ last_ins.addr_mode = "ZPX"
    /\ prev.cpu.x = 1
    /\ read_u8(prev.mem, prev.cpu.pc + 1) = 255
    /\ fetch_addr(prev.cpu, prev.mem, last_ins, prev.cpu.pc + 1) = 0
    /\ read_u8(prev.mem, 0) = 10
    /\ prev.cpu.ac = 85
    /\ cpu.ac = 95

\* C23 (as stated): every resolution in ZPX, ZPY or IDX mode, for all
\* operand bytes, index registers and memory contents, produces an
\* effective address of at most 0x00FF.
C23_IndexedAddressInZeroPage ==
    \A P \in {(cpu.pc + 1) % 65536, CounterPointer} :
        \A mode \in {"ZPX", "ZPY", "IDX"} :
            fetch_addr(cpu, mem, [addr_mode |-> mode], P) <= 255

\* C23 (amended): every resolution in ZPX or ZPY mode produces an effective
\* address of at most 0x00FF; a resolution in IDX mode reads its pointer at
\* (mem[P] + X) mod 256, which is at most 0x00FF, and produces the 16-bit
\* value found there, whatever it is.
C23_PointerInZeroPage ==
    \A P \in {(cpu.pc + 1) % 65536, CounterPointer} :
        LET b == read_u8(mem, P)
            pointer == (b + cpu.x) % 256
        IN /\ fetch_addr(cpu, mem, [addr_mode |-> "ZPX"], P) <= 255
           /\ fetch_addr(cpu, mem, [addr_mode |-> "ZPY"], P) <= 255
           /\ pointer <= 255
           /\ fetch_addr(cpu, mem, [addr_mode |-> "IDX"], P)
                 = read_u8(mem, pointer) + 256 * read_u8(mem, pointer + 1)

\* ORA ($FF,X) with X = 1 found the pointer 0x0280 at address 0x0000 and
\* took its operand from 0x0280.
C23_IdxResolvedAbovePageZero ==
    /\ Stepped
    /\ fixture.name = "operand"
    /\ last_ins.mnemonic = "ORA"
    /\ last_ins.addr_mode = "IDX"
    /\ prev.cpu.x = 1
    /\ read_u8(prev.mem, prev.cpu.pc + 1) = 255
    /\ fetch_addr(prev.cpu, prev.mem, last_ins, prev.cpu.pc + 1) = 640
    /\ read_u8(prev.mem, 640) = 10
    /\ prev.cpu.ac = 85
    /\ cpu.ac = 95

\* C24: JMP absolute sets PC to the 16-bit operand; JMP indirect sets PC
\* to the 16-bit value at the address the operand names, whose high byte
\* comes from the pointer's address plus one also when the pointer is in
\* the last byte of a page; JMP changes no register other than PC, no flag
\* and no memory.
C24_JmpSetsPcOnly ==
    (Stepped /\ last_ins.mnemonic = "JMP") =>
        LET byte(a) == read_u8(prev.mem, a % 65536)
            P == prev.cpu.pc + 1
            operand == byte(P) + 256 * byte(P + 1)
            target == IF last_ins.addr_mode = "ABS" THEN operand
                      ELSE byte(operand) + 256 * byte(operand + 1)
        IN /\ cpu.pc = target
           /\ cpu.ac = prev.cpu.ac /\ cpu.x = prev.cpu.x /\ cpu.y = prev.cpu.y
           /\ cpu.sp = prev.cpu.sp /\ cpu.sr = prev.cpu.sr
           /\ mem = prev.mem

\* JMP ($02FF) went to 0xABCD, the low byte from 0x02FF and the high byte
\* from 0x0300, not from 0x0200.
C24_JumpedThroughPageEnd ==
    /\ Stepped
    /\ fixture.name = "indirect"
    /\ last_ins.mnemonic = "JMP"
    /\ last_ins.addr_mode = "IND"
    /\ read_u16(prev.mem, prev.cpu.pc + 1) = 767
    /\ read_u8(prev.mem, 767) = 205
    /\ read_u8(prev.mem, 768) = 171
    /\ read_u8(prev.mem, 512) = 119
    /\ cpu.pc = 43981

\* C25: after an ADC, SBC, AND, EOR, ORA, LDA, LDX, LDY, INC, DEC, INX, INY,
\* DEX, DEY, ASL, LSR, ROL, ROR, PLA, TAX, TAY, TXA, TYA or TSX in any
\* addressing mode, Z is set exactly when the register or memory byte just
\* written is 0 and N is bit 7 of that byte; TXS copies X into SP and
\* changes no flag.
C25_NZFollowResult ==
    Stepped =>
        LET ins == last_ins
            addr == fetch_addr(prev.cpu, prev.mem, ins, (prev.cpu.pc + 1) % 65536)
            in_memory == \/ ins.mnemonic \in {"INC", "DEC"}
                         \/ /\ ins.mnemonic \in {"ASL", "LSR", "ROL", "ROR"}
                            /\ ins.addr_mode # "ACC"
            result == CASE in_memory -> read_u8(mem, addr)
                        [] ins.mnemonic \in {"LDX", "INX", "DEX", "TAX", "TSX"} -> cpu.x
                        [] ins.mnemonic \in {"LDY", "INY", "DEY", "TAY"} -> cpu.y
                        [] OTHER -> cpu.ac
        IN /\ ins.mnemonic \in {"ADC", "SBC", "AND", "EOR", "ORA", "LDA", "LDX", "LDY",
                                "INC", "DEC", "INX", "INY", "DEX", "DEY", "ASL", "LSR",
                                "ROL", "ROR", "PLA", "TAX", "TAY", "TXA", "TYA", "TSX"}
                => /\ contains(cpu.sr, Z) <=> (result = 0)
                   /\ contains(cpu.sr, N) <=> (result \div 128 = 1)
           /\ ins.mnemonic = "TXS"
                => /\ cpu.sp = prev.cpu.x
                   /\ cpu.sr = prev.cpu.sr

\* DEX took X from 0 to 0xFF: Z, set before, is clear and N is set.
C25_DexWrappedNegative ==
    /\ Stepped
    /\ fixture.name = "register"
    /\ last_ins.mnemonic = "DEX"
    /\ prev.cpu.x = 0
    /\ contains(prev.cpu.sr, Z)
    /\ cpu.x = 255
    /\ contains(cpu.sr, N)
    /\ ~contains(cpu.sr, Z)

\* C26: AND, EOR and ORA in each of the modes IMM, ZPG, ZPX, ABS, ABX, ABY,
\* IDX and IDY set AC to the bitwise and, exclusive or, or of the old AC and
\* the operand, set N and Z from the new AC, and leave the other flags, X,
\* Y, SP and the memory as they were.
C26_LogicalOps ==
    (Stepped /\ last_ins.mnemonic \in {"AND", "EOR", "ORA"}) =>
        LET ins == last_ins
            P == (prev.cpu.pc + 1) % 65536
            operand == IF ins.addr_mode = "IMM" THEN read_u8(prev.mem, P)
                       ELSE read_u8(prev.mem, fetch_addr(prev.cpu, prev.mem, ins, P))
            bit(v, i) == (v \div 2^i) % 2
            expected(i) ==
                CASE ins.mnemonic = "AND" -> bit(prev.cpu.ac, i) * bit(operand, i)
                  [] ins.mnemonic = "EOR" -> (bit(prev.cpu.ac, i) + bit(operand, i)) % 2
                  [] ins.mnemonic = "ORA" ->
                        IF bit(prev.cpu.ac, i) + bit(operand, i) > 0 THEN 1 ELSE 0
        IN /\ ins.addr_mode \in {"IMM", "ZPG", "ZPX", "ABS", "ABX", "ABY", "IDX", "IDY"}
           /\ cpu.ac \in 0..255
           /\ \A i \in 0..7 : bit(cpu.ac, i) = expected(i)
           /\ contains(cpu.sr, Z) <=> (cpu.ac = 0)
           /\ contains(cpu.sr, N) <=> (bit(cpu.ac, 7) = 1)
           /\ \A flag \in {C, I, D, B, RESERVED, V} :
                 contains(cpu.sr, flag) <=> contains(prev.cpu.sr, flag)
           /\ cpu.x = prev.cpu.x /\ cpu.y = prev.cpu.y /\ cpu.sp = prev.cpu.sp
           /\ mem = prev.mem

\* EOR ($10),Y with AC = 0x55 and the operand 0xFF left AC = 0xAA with N
\* set and Z clear, and C, V, I and D still set.
C26_EorThroughPointer ==
    /\ Stepped
    /\ fixture.name = "operand"
    /\ last_ins.mnemonic = "EOR"
    /\ last_ins.addr_mode = "IDY"
    /\ prev.cpu.ac = 85
    /\ read_u8(prev.mem, 0) = 255
    /\ contains(prev.cpu.sr, BitOr(Z, BitOr(C, BitOr(V, BitOr(I, D)))))
    /\ cpu.ac = 170
    /\ contains(cpu.sr, BitOr(N, BitOr(C, BitOr(V, BitOr(I, D)))))
    /\ ~contains(cpu.sr, Z)

\* C27: BIT in zero-page and absolute mode, for every AC and operand m in
\* memory: afterwards N is bit 7 of m, V is bit 6 of m and Z is set exactly
\* when AC and m have no bit in common; AC, the operand in memory, C, I and
\* D are unchanged.
C27_BitTest ==
    (Stepped /\ last_ins.mnemonic = "BIT") =>
        LET ins == last_ins
            addr == fetch_addr(prev.cpu, prev.mem, ins, (prev.cpu.pc + 1) % 65536)
            operand == read_u8(prev.mem, addr)
            bit(v, i) == (v \div 2^i) % 2
        IN /\ ins.addr_mode \in {"ZPG", "ABS"}
           /\ contains(cpu.sr, N) <=> (bit(operand, 7) = 1)
           /\ contains(cpu.sr, V) <=> (bit(operand, 6) = 1)
           /\ contains(cpu.sr, Z) <=>
                 (\A i \in 0..7 : bit(prev.cpu.ac, i) * bit(operand, i) = 0)
           /\ cpu.ac = prev.cpu.ac
           /\ read_u8(mem, addr) = operand
           /\ \A flag \in {C, I, D} :
                 contains(cpu.sr, flag) <=> contains(prev.cpu.sr, flag)

\* BIT $0280 with AC = 0x55 and the operand 0x80: N is set, V, set before,
\* is clear, and Z is set though the operand is not 0.
C27_BitSetsZForDisjointBits ==
    /\ Stepped
    /\ fixture.name = "operand"
    /\ last_ins.mnemonic = "BIT"
    /\ last_ins.addr_mode = "ABS"
    /\ prev.cpu.ac = 85
    /\ read_u8(prev.mem, 640) = 128
    /\ contains(prev.cpu.sr, BitOr(V, C))
    /\ contains(cpu.sr, BitOr(N, BitOr(Z, C)))
    /\ ~contains(cpu.sr, V)
    /\ cpu.ac = 85
    /\ read_u8(mem, 640) = 128

\* C28: ASL, LSR, ROL and ROR on the accumulator or on the memory byte at
\* the effective address, for every operand and carry: ASL sets C to bit 7
\* and gives (operand * 2) mod 256; LSR sets C to bit 0 and gives operand
\* div 2; ROL sets C to bit 7 and gives (operand * 2) mod 256 plus the old
\* carry; ROR sets C to bit 0 and gives operand div 2 plus 0x80 if the
\* carry was set.  The result lands where the operand came from; no other
\* byte of memory and no other register is written.
C28_ShiftsAndRotates ==
    (Stepped /\ last_ins.mnemonic \in {"ASL", "LSR", "ROL", "ROR"}) =>
        LET ins == last_ins
            acc == ins.addr_mode = "ACC"
            addr == fetch_addr(prev.cpu, prev.mem, ins, (prev.cpu.pc + 1) % 65536)
            operand == IF acc THEN prev.cpu.ac ELSE read_u8(prev.mem, addr)
            carry_in == IF contains(prev.cpu.sr, C) THEN 1 ELSE 0
            carry_out == IF ins.mnemonic \in {"ASL", "ROL"} THEN operand \div 128
                         ELSE operand % 2
            result == CASE ins.mnemonic = "ASL" -> (operand * 2) % 256
                        [] ins.mnemonic = "LSR" -> operand \div 2
                        [] ins.mnemonic = "ROL" -> ((operand * 2) % 256) + carry_in
                        [] ins.mnemonic = "ROR" -> (operand \div 2) + (128 * carry_in)
        IN /\ contains(cpu.sr, C) <=> (carry_out = 1)
           /\ IF acc THEN cpu.ac = result /\ mem = prev.mem
              ELSE /\ read_u8(mem, addr) = result
                   /\ cpu.ac = prev.cpu.ac
                   /\ \A a \in (DOMAIN mem.data \cup DOMAIN prev.mem.data) \ {addr} :
                         read_u8(mem, a) = read_u8(prev.mem, a)
           /\ cpu.x = prev.cpu.x /\ cpu.y = prev.cpu.y /\ cpu.sp = prev.cpu.sp

\* ROR $FF,X with X = 1, the operand 0x01 at address 0 and the carry set:
\* the byte is 0x80 and the carry is set again, from bit 0.
C28_RorTookCarryIn ==
    /\ Stepped
    /\ fixture.name = "operand"
    /\ last_ins.mnemonic = "ROR"
    /\ last_ins.addr_mode = "ZPX"
    /\ read_u8(prev.mem, 0) = 1
    /\ contains(prev.cpu.sr, C)
    /\ read_u8(mem, 0) = 128
    /\ contains(cpu.sr, C)
    /\ contains(cpu.sr, N)

\* C29: for every byte v and every carry, ROL followed by ROR on the same
\* operand, the accumulator or one memory byte, leaves the byte and the
\* carry flag as they were before the two; so does ROR followed by ROL.
C29_RotateRoundTrip ==
    (fixture.name = "rotate" /\ panicked = "none" /\ call.total = 2) =>
        LET mode == from_opcode(read_u8(mem, ADDR_RESET_VECTOR)).addr_mode
            byte == CASE mode = "ACC" -> cpu.ac
                      [] mode = "ZPG" -> read_u8(mem, AluOperandAddr)
                      [] mode = "ABS" -> read_u8(mem, 640)
        IN /\ byte = fixture.ac
           /\ contains(cpu.sr, C) <=> contains(fixture.flags, C)

\* ROL $10; ROR $10 on the byte 0x80 with the carry clear: after the ROL
\* the byte was 0 and the carry set, after the ROR the byte is 0x80 and
\* the carry clear.
C29_RotatedThereAndBack ==
    /\ fixture.name = "rotate"
    /\ Stepped
    /\ call.total = 2
    /\ last_ins.mnemonic = "ROR"
    /\ last_ins.addr_mode = "ZPG"
    /\ fixture.ac = 128
    /\ ~contains(fixture.flags, C)
    /\ read_u8(prev.mem, AluOperandAddr) = 0
    /\ contains(prev.cpu.sr, C)
    /\ read_u8(mem, AluOperandAddr) = 128
    /\ ~contains(cpu.sr, C)

\* C30: INC and DEC on memory and INX, INY, DEX and DEY on the registers
\* add or subtract 1 modulo 256 (0xFF + 1 = 0x00, 0x00 - 1 = 0xFF); for
\* every byte v, INC followed by DEC at the same address leaves v in the
\* memory byte, and two DECs leave (v - 2) mod 256.
C30_IncDecWrap ==
    /\ Stepped =>
          LET ins == last_ins
              addr == fetch_addr(prev.cpu, prev.mem, ins, (prev.cpu.pc + 1) % 65536)
          IN /\ ins.mnemonic = "INC" =>
                   read_u8(mem, addr) = (read_u8(prev.mem, addr) + 1) % 256
             /\ ins.mnemonic = "DEC" =>
                   read_u8(mem, addr) = (read_u8(prev.mem, addr) + 255) % 256
             /\ ins.mnemonic = "INX" => cpu.x = (prev.cpu.x + 1) % 256
             /\ ins.mnemonic = "INY" => cpu.y = (prev.cpu.y + 1) % 256
             /\ ins.mnemonic = "DEX" => cpu.x = (prev.cpu.x + 255) % 256
             /\ ins.mnemonic = "DEY" => cpu.y = (prev.cpu.y + 255) % 256
    /\ (fixture.name = "incdec" /\ panicked = "none" /\ call.total = 2) =>
          LET first == from_opcode(read_u8(mem, ADDR_RESET_VECTOR))
              second == from_opcode(read_u8(mem, ADDR_RESET_VECTOR + first.bytes))
              v == fixture.writes[1].value
              byte == read_u8(mem, fixture.writes[1].addr[1])
          IN IF first.mnemonic = second.mnemonic
             THEN first.mnemonic = "DEC" /\ byte = (v + 254) % 256
             ELSE byte = v

\* DEC $0280; DEC $0280 on the byte 0x01: it was 0x00 after the first and
\* is 0xFF after the second.
C30_TwoDecsBelowZero ==
    /\ fixture.name = "incdec"
    /\ Stepped
    /\ call.total = 2
    /\ last_ins.mnemonic = "DEC"
    /\ last_ins.addr_mode = "ABS"
    /\ fixture.writes[1].value = 1
    /\ read_u8(prev.mem, 640) = 0
    /\ read_u8(mem, 640) = 255

\* C31: STA, STX and STY in every addressing mode write AC, X or Y to the
\* memory byte at the effective address and to no other byte, and leave
\* the status, AC, X, Y and SP as they were.
C31_StoresWriteOneByte ==
    (Stepped /\ last_ins.mnemonic \in {"STA", "STX", "STY"}) =>
        LET ins == last_ins
            addr == fetch_addr(prev.cpu, prev.mem, ins, (prev.cpu.pc + 1) % 65536)
            value == CASE ins.mnemonic = "STA" -> prev.cpu.ac
                       [] ins.mnemonic = "STX" -> prev.cpu.x
                       [] ins.mnemonic = "STY" -> prev.cpu.y
        IN /\ read_u8(mem, addr) = value
           /\ \A a \in (DOMAIN mem.data \cup DOMAIN prev.mem.data) \ {addr} :
                 read_u8(mem, a) = read_u8(prev.mem, a)
           /\ cpu.sr = prev.cpu.sr
           /\ cpu.ac = prev.cpu.ac /\ cpu.x = prev.cpu.x /\ cpu.y = prev.cpu.y
           /\ cpu.sp = prev.cpu.sp

\* STA ($FF,X) with X = 1 and AC = 0xFF replaced the byte 0x0A at 0x0280;
\* the pointer at 0x0000 and the status, with Z set, are as before.
C31_StoredThroughPointer ==
    /\ Stepped
    /\ fixture.name = "operand"
    /\ last_ins.mnemonic = "STA"
    /\ last_ins.addr_mode = "IDX"
    /\ prev.cpu.ac = 255
    /\ read_u8(prev.mem, 640) = 10
    /\ contains(prev.cpu.sr, Z)
    /\ read_u8(mem, 640) = 255
    /\ read_u16(mem, 0) = 640
    /\ cpu.sr = prev.cpu.sr

C33_MemoryRoundTrips ==
    \A a \in {0, 255, 4660, 65534, 65535} :
        /\ \A v \in {0, 255, 256, 4660, 43981, 65535} :
              LET written == write_u16(mem, Some(a), v)
              IN /\ read_u8(written, a) = v % 256
                 /\ read_u8(written, (a + 1) % 65536) = v \div 256
                 /\ read_u16(written, a) = v
        /\ \A b \in ByteVals : read_u8(write_u8(mem, Some(a), b), a) = b
        /\ \A s \in {0 - 128, 0 - 1, 0, 1, 127} :
              LET written == write_i8(mem, Some(a), s)
              IN /\ read_i8(written, a) = s
                 /\ read_u8(written, a) = s % 256

\* The word 0xABCD was written at 0xFFFF, the low byte there and the high
\* byte at 0x0000; JMP ($FFFF) read it back, and the program with overflow
\* checks stopped in the addition of the read.
C33_ReadAtTopOverflows ==
    /\ fixture.name = "indirect"
    /\ prev.op = "step"
    /\ last_ins.addr_mode = "IND"
    /\ read_u8(prev.mem, prev.cpu.pc + 1) = 255
    /\ read_u8(prev.mem, prev.cpu.pc + 2) = 255
    /\ read_u8(mem, 65535) = 205
    /\ read_u8(mem, 0) = 171
    /\ overflow_checks
    /\ read_u16(mem, 65535) = Overflow
    /\ panicked = "overflow"

\* C34: a write without an address stores its byte or word immediately
\* after the end of the write before it, 1 byte after a byte write and 2
\* bytes after a word write, modulo 2^16, whatever mixture of writes with
\* and without an address came before; a write with an address stores
\* there; a write without an address fails when no write was made since
\* the memory was created or last reset.
C34_SequentialAppend ==
    [][ prev'.op = "write" =>
          LET RECURSIVE end_of(_)
              size(w) == IF w.kind = "u16" THEN 2 ELSE 1
              end_of(ws) ==
                  LET w == ws[Len(ws)]
                      start == IF w.addr # None THEN w.addr[1]
                               ELSE end_of(SubSeq(ws, 1, Len(ws) - 1))
                  IN (start + size(w)) % 65536
              before == fixture.writes
              w == fixture'.writes[Len(fixture'.writes)]
              bytes == IF w.kind = "u16" THEN <<w.value % 256, w.value \div 256>>
                       ELSE <<w.value % 256>>
          IN IF w.addr = None /\ before = <<>>
             THEN panicked' = "write" /\ mem' = mem
             ELSE LET start == IF w.addr # None THEN w.addr[1] ELSE end_of(before)
                      written == { (start + i - 1) % 65536 : i \in 1..Len(bytes) }
                  IN /\ panicked' = "none"
                     /\ \A i \in 1..Len(bytes) :
                           read_u8(mem', (start + i - 1) % 65536) = bytes[i]
                     /\ \A a \in (DOMAIN mem.data \cup DOMAIN mem'.data) \ written :
                           read_u8(mem', a) = read_u8(mem, a)
      ]_vars

\* A word written at 0xFFFF, then a byte and a word without an address:
\* the byte is at 0x0001 and the word at 0x0002 and 0x0003.
C34_AppendedAfterWrap ==
    /\ fixture.name = "writes"
    /\ panicked = "none"
    /\ Len(fixture.writes) = 3
    /\ fixture.writes[1] = [kind |-> "u16", addr |-> Some(65535), value |-> 43981]
    /\ fixture.writes[2] = [kind |-> "u8", addr |-> None, value |-> 171]
    /\ fixture.writes[3] = [kind |-> "u16", addr |-> None, value |-> 43981]
    /\ read_u8(mem, 65535) = 205
    /\ read_u8(mem, 0) = 171
    /\ read_u8(mem, 1) = 171
    /\ read_u8(mem, 2) = 205
    /\ read_u8(mem, 3) = 171

\* C35: the stack is last-in first-out across pushes of one and two bytes:
\* a byte pushed by PHA and still on the stack is not overwritten by the
\* push of a later JSR, so that after PHA; JSR T; RTS; PLA, for every AC
\* and every SP, AC is the value that was pushed and SP is what it was at
\* the start.
C35_MixedWidthLifo ==
    /\ (fixture.name = "mixed" /\ panicked = "none" /\ call.total = 4) =>
          /\ cpu.ac = fixture.ac
          /\ cpu.sp = fixture.sp
    /\ (fixture.name = "mixed" /\ panicked = "none" /\ call.total \in {2, 3}) =>
          read_u8(mem, addr_stack(fixture.sp)) = fixture.ac

\* PHA of 0x0A at SP = 0xFD, JSR $1234, RTS and PLA: SP is 0xFD again but
\* AC is 0xE0, the high byte of the return address 0xE003, which the JSR
\* stored over the pushed byte at 0x01FD.
C35_PulledReturnAddressByte ==
    /\ fixture.name = "mixed"
    /\ Stepped
    /\ call.total = 4
    /\ last_ins.mnemonic = "PLA"
    /\ fixture.ac = 10
    /\ fixture.sp = 253
    /\ cpu.sp = 253
    /\ read_u8(mem, 509) = 224
    /\ read_u8(mem, 508) = 3
    /\ cpu.ac = 224

\* C36: in every state reached from a reset by executing instructions the
\* B flag of SR is clear: no instruction changes B in SR; BRK and PHP set
\* it in the byte they push only, and PLP and RTI keep the B of SR whatever
\* the byte they pull holds.
C36_BreakFlagStaysClear ==
    /\ Stepped => (contains(cpu.sr, B) <=> contains(prev.cpu.sr, B))
    /\ ~contains(fixture.flags, B) => ~contains(cpu.sr, B)

\* PLP pulled a byte with B set into a status with B clear, and B is
\* clear afterwards.
C36_PulledBIgnored ==
    /\ Stepped
    /\ last_ins.mnemonic = "PLP"
    /\ ~contains(fixture.flags, B)
    /\ ~contains(prev.cpu.sr, B)
    /\ contains(read_u8(prev.mem, addr_stack(cpu.sp)), B)
    /\ contains(cpu.sr, C)
    /\ ~contains(cpu.sr, B)

\* C37: exec(N) returns, or stops with an error, for every budget N and
\* every memory content, also when the program is an endless loop: every
\* instruction of the table costs at least 2 cycles, every instruction
\* executed makes the remaining budget, a natural number, smaller, and a
\* call executes at most ceil(N / 2) instructions.
C37_ExecTerminates ==
    [][ /\ \A o \in DefinedOpcodes : from_opcode(o).cycles >= 2
        /\ cycles_to_execute' \in 0..call'.max_cycles
        /\ 2 * call'.executed <= call'.max_cycles + 1
        /\ call'.executed = call.executed + 1
              => cycles_to_execute' < cycles_to_execute
      ]_vars

\* The jump to itself has been executed four times, by four calls
\* exec(1), each of which returned with the budget used up.
C37_EndlessLoopReturned ==
    /\ fixture.name = "loop"
    /\ panicked = "none"
    /\ call.max_cycles = 1
    /\ call.count = 4
    /\ call.executed = 1
    /\ call.total = 4
    /\ cycles_to_execute = 0
    /\ cpu.pc = ADDR_RESET_VECTOR

\* C38: one call with a large budget is equivalent to single steps: when
\* calls of exec, with whatever budgets, have executed k instructions from
\* a state and returned, PC, AC, X, Y, SR, SP, the cycle counter and the
\* memory are what k iterations of the loop body, each a call exec(1),
\* make of that state; nothing but the cpu and the memory is carried from
\* one call to the next.
C38_BudgetSplitIrrelevant ==
    (/\ fixture.name \notin {"created", "reset", "writes"}
     /\ panicked = "none"
     /\ cycles_to_execute = 0) =>
        LET RECURSIVE single_steps(_, _, _)
            single_steps(c, m, k) ==
                IF k = 0 THEN [cpu |-> c, mem |-> m]
                ELSE LET after(r) == single_steps(r.cpu, r.mem, k - 1)
                     IN after(exec_iteration(c, m))
            start == Cpu_reset(Cpu_create, Memory_create)
            cpu0 == [start.cpu EXCEPT !.ac = fixture.ac, !.x = fixture.x,
                                      !.y = fixture.y, !.sp = fixture.sp,
                                      !.sr = insert(@, fixture.flags),
                                      !.cycles = fixture.cycles]
            mem0 == apply_writes(start.mem, fixture.writes)
            compared(s) == cpu = s.cpu /\ mem = s.mem
        IN compared(single_steps(cpu0, mem0, call.total))

\* One call exec(3) executed ROL A and ROR A and returned: AC and the
\* carry are as at the start and the counter has advanced by 4.
C38_TwoInstructionsInOneCall ==
    /\ fixture.name = "rotate"
    /\ panicked = "none"
    /\ call.count = 1
    /\ call.max_cycles = 3
    /\ call.executed = 2
    /\ cycles_to_execute = 0
    /\ cpu.pc = ADDR_RESET_VECTOR + 2
    /\ fixture.ac = 128
    /\ cpu.ac = 128
    /\ cpu.cycles = CYCLES_AFTER_RESET + 4

\* C39: with D clear V is the signed overflow of the operation: after an ADC
\* that completed, V is set exactly when signed(AC) + signed(operand) + C is
\* outside -128 .. 127, and after an SBC that completed, V is set exactly
\* when signed(AC) - signed(operand) - (1 - C) is outside -128 .. 127.
C39_VIsSignedOverflow ==
    (Stepped /\ last_ins.mnemonic \in {"ADC", "SBC"}) =>
        LET signed(b) == IF b >= 128 THEN b - 256 ELSE b
            carry == IF contains(prev.cpu.sr, C) THEN 1 ELSE 0
            exact == IF last_ins.mnemonic = "ADC"
                     THEN signed(prev.cpu.ac) + signed(last_operand) + carry
                     ELSE signed(prev.cpu.ac) - signed(last_operand) - (1 - carry)
        IN /\ ~contains(prev.cpu.sr, D)
           /\ contains(cpu.sr, V) <=> (exact < 0 - 128 \/ exact > 127)

\* SBC of 0x80 from 0x7F with the carry set, in a build without overflow
\* checks: 127 - (-128) = 255 does not fit and V is set, with a borrow.
C39_SbcOverflowedWithBorrow ==
    /\ Stepped
    /\ last_ins.mnemonic = "SBC"
    /\ ~overflow_checks
    /\ prev.cpu.ac = 127
    /\ last_operand = 128
    /\ contains(prev.cpu.sr, C)
    /\ cpu.ac = 255
    /\ contains(cpu.sr, V)
    /\ ~contains(cpu.sr, C)

\* C40: a step that completed an instruction other than STA, STX, STY, a
\* memory INC or DEC, a memory-mode ASL, LSR, ROL or ROR, PHA, PHP, JSR or
\* BRK has left every byte of memory as it was.
C40_OnlyWritersWriteMemory ==
    ( /\ Stepped
      /\ last_ins.mnemonic \notin {"STA", "STX", "STY", "INC", "DEC",
                                   "PHA", "PHP", "JSR", "BRK"}
      /\ ~( /\ last_ins.mnemonic \in {"ASL", "LSR", "ROL", "ROR"}
            /\ last_ins.addr_mode # "ACC" ) ) =>
        \A a \in DOMAIN mem.data \cup DOMAIN prev.mem.data :
            read_u8(mem, a) = read_u8(prev.mem, a)

\* PLA pulled the non-zero byte a PHA had pushed, and the byte is still on
\* the stack page.
C40_PulledByteStaysInMemory ==
    /\ Stepped
    /\ last_ins.mnemonic = "PLA"
    /\ cpu.ac = 128
    /\ cpu.sp = wrapping_add_u8(prev.cpu.sp, 1)
    /\ read_u8(prev.mem, 256 + cpu.sp) = 128
    /\ read_u8(mem, 256 + cpu.sp) = 128
====
